---- MODULE Spec2Model ----
(***************************************************************************)
(* Model of snowapp.py (DeploySure Suite): the warehouse-facing functions  *)
(* of the dashboard.  The warehouse is an opaque remote service: every     *)
(* cursor.execute either raises with some message or returns rows, and     *)
(* both are inputs drawn from small sets.  Text is a sequence of           *)
(* one-character strings so that str(), strip(), split() and re.sub() are  *)
(* computed the way the code computes them.                                *)
(***************************************************************************)
EXTENDS Integers, Sequences, FiniteSets, TLC

\* ------------------------------------------------------------------------
\* Bounds of the model
\* ------------------------------------------------------------------------
MaxCases == 2       \* longest list of selected test cases
MaxErrLen == 2      \* longest warehouse error message, in characters
MaxTables == 2      \* most tables a schema holds
MaxRows == 2        \* most rows the table under a quality check holds
MaxConnects == 2    \* most successful connects of a session

None == [k |-> "none"]
IntVal(n) == [k |-> "int", v |-> n]
StrVal(t) == [k |-> "str", v |-> t]

\* ------------------------------------------------------------------------
\* Text helpers (Python str semantics)
\* ------------------------------------------------------------------------
Whitespace == {" ", "\n"}
DigitChars == <<"0", "1", "2", "3", "4", "5", "6", "7", "8", "9">>
WordChars == {"a", "b", "d", "s", "t", "x", "A", "B", "D", "S", "T", "_"}
                \cup {DigitChars[i] : i \in 1..10}

RECURSIVE IntStr(_)
IntStr(n) == IF n < 10 THEN <<DigitChars[n + 1]>>
             ELSE IntStr(n \div 10) \o <<DigitChars[(n % 10) + 1]>>

\* str(x) for the scalar kinds a result cell can hold
PyStr(x) == CASE x.k = "int" -> IntStr(x.v)
              [] x.k = "str" -> x.v
              [] x.k = "none" -> <<"N", "o", "n", "e">>

RECURSIVE LStrip(_)
LStrip(s) == IF s # <<>> /\ Head(s) \in Whitespace THEN LStrip(Tail(s)) ELSE s

RECURSIVE RStrip(_)
RStrip(s) == IF s # <<>> /\ s[Len(s)] \in Whitespace
             THEN RStrip(SubSeq(s, 1, Len(s) - 1)) ELSE s

\* str.strip()
Strip(s) == RStrip(LStrip(s))

RECURSIVE FirstLine(_)
\* str(e).split('\n')[0]
FirstLine(s) == IF s = <<>> \/ Head(s) = "\n" THEN <<>>
                ELSE <<Head(s)>> \o FirstLine(Tail(s))

Lower(c) == CASE c = "A" -> "a" [] c = "B" -> "b" [] c = "D" -> "d"
              [] c = "S" -> "s" [] c = "T" -> "t" [] OTHER -> c

\* \b at the gap before position i (1..Len(s)+1)
WordBoundary(s, i) ==
    LET before == i > 1 /\ s[i - 1] \in WordChars
        after == i <= Len(s) /\ s[i] \in WordChars
    IN before # after

\* rf'\b{re.escape(table_name)}\b' with re.IGNORECASE matches at i
MatchAt(pat, s, i) ==
    /\ i + Len(pat) - 1 <= Len(s)
    /\ \A k \in 1..Len(pat) : Lower(s[i + k - 1]) = Lower(pat[k])
    /\ WordBoundary(s, i)
    /\ WordBoundary(s, i + Len(pat))

RECURSIVE ReSubFrom(_, _, _, _)
ReSubFrom(pat, repl, s, i) ==
    IF i > Len(s) THEN <<>>
    ELSE IF MatchAt(pat, s, i)
         THEN repl \o ReSubFrom(pat, repl, s, i + Len(pat))
         ELSE <<s[i]>> \o ReSubFrom(pat, repl, s, i + 1)

\* re.sub(pattern, replacement, sql, flags=re.IGNORECASE)
ReSub(pat, repl, s) == ReSubFrom(pat, repl, s, 1)

\* f'{database}.{schema}.{table_name}'
Qualified(database, schema, table_name) ==
    database \o <<".">> \o schema \o <<".">> \o table_name

\* ------------------------------------------------------------------------
\* Inputs of the test case runner
\* ------------------------------------------------------------------------
DB == <<"D">>
SCHEMA == <<"S">>

\* Rows of the TEST_CASES catalog as get_test_cases returns them:
\* (TEST_CASE_ID, TEST_ABBREVIATION, TABLE_NAME, TEST_DESCRIPTION, SQL_CODE,
\*  EXPECTED_RESULT)
Catalog ==
    { <<1, "CNT", StrVal(<<"T", "B">>), "d", <<"x", " ", "t", "b">>,
        StrVal(<<"1", "0">>)>>,
      <<2, "PAD", StrVal(<<"T", "B">>), "d",
        <<"x", " ", "D", ".", "S", ".", "T", "B">>,
        StrVal(<<" ", "1", "0", "\n">>)>>,
      <<3, "NUM", StrVal(<<"T", "B">>), "d", <<"x", " ", "T", "B", "x">>,
        IntVal(0)>>,
      <<4, "NOTAB", None, "d", <<"x", " ", "T", "B">>, StrVal(<<"9">>)>> }

RECURSIVE SeqsUpTo(_, _)
SeqsUpTo(S, n) ==
    IF n = 0 THEN {<<>>}
    ELSE LET shorter == SeqsUpTo(S, n - 1)
         IN shorter \cup {Append(q, x) : q \in shorter, x \in S}

ErrMsgs == SeqsUpTo({"e", "\n"}, MaxErrLen) \ {<<>>}

\* What str(e) is when re.escape is handed a table name that is not a string
TypeErrorMsg == <<"T", "y", "p", "e">>

\* First cell of the first row a test query can return
CellValues == {IntVal(10), IntVal(9), IntVal(0), StrVal(<<" ", "1", "0">>), None}

\* Outcome of cursor.execute(qualified_sql); cursor.fetchone()
QueryOutcomes ==
    {[t |-> "raise", msg |-> m] : m \in ErrMsgs}
        \cup {[t |-> "norow"]}
        \cup {[t |-> "row", v |-> v] : v \in CellValues}

PASS == "PASS"
FAIL == "FAIL"
EXECUTION_ERROR == "EXECUTION ERROR"
QUERY_ERROR == <<"Q", "U", "E", "R", "Y", " ", "E", "R", "R", "O", "R", ":", " ">>

VARIABLES
    tc_pc,          \* position in validate_test_cases: idle / loop / done
    test_cases,     \* the list of selected cases handed to the call
    tc_conn,        \* the conn argument ("none" when not connected)
    tc_i,           \* index of the next case of the for loop
    results,        \* the list of result rows built so far
    tc_executed,    \* statements sent through cursor.execute, in order
    tc_outcomes,    \* history: what happened to each case, in order
    tc_ret          \* the (df, message) pair returned

tcVars == <<tc_pc, test_cases, tc_conn, tc_i, results, tc_executed,
            tc_outcomes, tc_ret>>

NoReturn == [df |-> <<>>, msg |-> "none"]

InitTC ==
    /\ tc_pc = "idle"
    /\ test_cases = <<>>
    /\ tc_conn = "none"
    /\ tc_i = 0
    /\ results = <<>>
    /\ tc_executed = <<>>
    /\ tc_outcomes = <<>>
    /\ tc_ret = NoReturn

\* ------------------------------------------------------------------------
\* validate_test_cases
\* ------------------------------------------------------------------------
\* A comparison that also trims the actual value
CaseStatus_trimsActual(actual_result, expected) ==
    IF Strip(actual_result) = expected THEN PASS ELSE FAIL

\* status = "PASS" if actual_result == expected else "FAIL"
CaseStatus(actual_result, expected) ==
    IF actual_result = expected THEN PASS ELSE FAIL

\* A row whose actual value is empty when no row was fetched
PassFailRow_emptyDefault(case, expected, result) ==
    LET actual_result == IF result.t = "row" THEN PyStr(result.v)
                         ELSE <<>>
    IN [TEST_CASE |-> case[2], CATEGORY |-> case[3],
        EXPECTED_RESULT |-> expected, ACTUAL_RESULT |-> actual_result,
        STATUS |-> CaseStatus(actual_result, expected)]

\* The row appended by the body of the try block
PassFailRow(case, expected, result) ==
    LET actual_result == IF result.t = "row" THEN PyStr(result.v)
                         ELSE <<"0">>
    IN [TEST_CASE |-> case[2], CATEGORY |-> case[3],
        EXPECTED_RESULT |-> expected, ACTUAL_RESULT |-> actual_result,
        STATUS |-> CaseStatus(actual_result, expected)]

\* An error row carrying the whole message
ErrorRow_wholeMessage(case, expected, e) ==
    [TEST_CASE |-> case[2], CATEGORY |-> case[3],
     EXPECTED_RESULT |-> expected,
     ACTUAL_RESULT |-> QUERY_ERROR \o e,
     STATUS |-> EXECUTION_ERROR]

\* The row appended by the except block
ErrorRow(case, expected, e) ==
    [TEST_CASE |-> case[2], CATEGORY |-> case[3],
     EXPECTED_RESULT |-> expected,
     ACTUAL_RESULT |-> QUERY_ERROR \o FirstLine(e),
     STATUS |-> EXECUTION_ERROR]

\* A loop whose except clause sits outside the for statement
NextCase_abortsOnRaise(i, out, n) == IF out.t = "raise" THEN n + 1 ELSE i + 1

\* for case in test_cases: the try/except is inside the body, so the loop
\* moves to the next case whatever happened to this one
NextCase(i, out, n) == i + 1

\* Entry: the two guards before the loop
validate_test_cases_enter ==
    /\ tc_pc = "idle"
    /\ \E conn \in {"none", "conn"}, cases \in SeqsUpTo(Catalog, MaxCases) :
        /\ tc_conn' = conn
        /\ test_cases' = cases
        /\ IF conn = "none"
           THEN /\ tc_ret' = [df |-> <<>>, msg |-> "Not connected to Snowflake."]
                /\ tc_pc' = "done"
           ELSE IF cases = <<>>
           THEN /\ tc_ret' = [df |-> <<>>, msg |-> "No test cases selected"]
                /\ tc_pc' = "done"
           ELSE /\ tc_ret' = tc_ret
                /\ tc_pc' = "loop"
    /\ tc_i' = 1
    /\ results' = <<>>
    /\ tc_executed' = <<>>
    /\ tc_outcomes' = <<>>

\* One iteration of the for loop: the try block and its except handler
validate_test_cases_case ==
    /\ tc_pc = "loop"
    /\ tc_i <= Len(test_cases)
    /\ LET case == test_cases[tc_i]
           table_name == case[3]
           expected == Strip(PyStr(case[6]))
       IN IF table_name.k # "str"
          THEN \* re.escape raises before anything is executed
               /\ results' = Append(results, ErrorRow(case, expected, TypeErrorMsg))
               /\ tc_executed' = tc_executed
               /\ tc_outcomes' = Append(tc_outcomes,
                                        [t |-> "raise", msg |-> TypeErrorMsg])
               /\ tc_i' = NextCase(tc_i, [t |-> "raise", msg |-> TypeErrorMsg],
                                   Len(test_cases))
          ELSE LET qualified_sql ==
                       ReSub(table_name.v,
                             Qualified(DB, SCHEMA, table_name.v), case[5])
               IN \E out \in QueryOutcomes :
                    /\ tc_executed' = Append(tc_executed, qualified_sql)
                    /\ tc_outcomes' = Append(tc_outcomes, out)
                    /\ results' =
                         Append(results,
                                IF out.t = "raise"
                                THEN ErrorRow(case, expected, out.msg)
                                ELSE PassFailRow(case, expected, out))
                    /\ tc_i' = NextCase(tc_i, out, Len(test_cases))
    /\ UNCHANGED <<tc_pc, test_cases, tc_conn, tc_ret>>

\* After the loop: df = pd.DataFrame(results)
validate_test_cases_return ==
    /\ tc_pc = "loop"
    /\ tc_i > Len(test_cases)
    /\ tc_ret' = [df |-> results, msg |-> "Validation completed"]
    /\ tc_pc' = "done"
    /\ UNCHANGED <<test_cases, tc_conn, tc_i, results, tc_executed, tc_outcomes>>

\* ------------------------------------------------------------------------
\* clone_schema
\* ------------------------------------------------------------------------
VARIABLES
    cl_pc,          \* position in clone_schema
    cl_args,        \* (conn, source_db, source_schema, target_schema)
    cl_source_exists, \* whether the warehouse holds the source schema
    cl_stmts,       \* statements sent through cursor.execute, in order
    cl_hist,        \* history: the warehouse's answer to each statement
    cl_counts,      \* len(source_tables), len(clone_tables) once listed
    cl_ret          \* the (success, message, summary) triple returned

clVars == <<cl_pc, cl_args, cl_source_exists, cl_stmts, cl_hist, cl_counts,
            cl_ret>>

SHOW_SCHEMAS_SOURCE == "SHOW SCHEMAS LIKE source_schema"
CLONE_STMT == "CREATE OR REPLACE SCHEMA target CLONE source"
SHOW_SCHEMAS_TARGET == "SHOW SCHEMAS LIKE target_schema"
SHOW_TABLES_SOURCE == "SHOW TABLES IN SCHEMA source"
SHOW_TABLES_TARGET == "SHOW TABLES IN SCHEMA target"

STATUS_SUCCESS == "Success"
STATUS_PARTIAL == "Partial Success"

NoCloneReturn == [success |-> FALSE, msg |-> <<>>, df |-> <<>>]

InitClone ==
    /\ cl_pc = "idle"
    /\ cl_args = [conn |-> "none", source_db |-> "", source_schema |-> "",
                  target_schema |-> ""]
    /\ cl_source_exists = FALSE
    /\ cl_stmts = <<>>
    /\ cl_hist = <<>>
    /\ cl_counts = [source |-> 0, clone |-> 0]
    /\ cl_ret = NoCloneReturn

Raised(e) == [t |-> "raise", msg |-> e]
Rows(n) == [t |-> "rows", n |-> n]

\* A handler that reports the failure without the exception's text
CloneExcept_dropsText(e) ==
    [success |-> FALSE, msg |-> <<"Clone failed">>, df |-> <<>>]

\* except Exception as e: return False, f"Clone failed: {str(e)}", DataFrame()
CloneExcept(e) ==
    [success |-> FALSE, msg |-> <<"Clone failed: ">> \o e, df |-> <<>>]

\* An existence check whose result is ignored
NoRowsFetched_ignored(n) == FALSE

\* if not cursor.fetchall()
NoRowsFetched(n) == n = 0

\* A status that treats a larger clone as an exact match
CloneStatus_atLeast(source_count, clone_count) ==
    IF source_count <= clone_count THEN STATUS_SUCCESS ELSE STATUS_PARTIAL

\* 'Success' if len(source_tables) == len(clone_tables) else 'Partial Success'
CloneStatus(source_count, clone_count) ==
    IF source_count = clone_count THEN STATUS_SUCCESS ELSE STATUS_PARTIAL

\* The one-row summary frame
CloneSummary(args, source_count, clone_count) ==
    <<[Database |-> args.source_db,
       Source_Schema |-> args.source_schema,
       Clone_Schema |-> args.target_schema,
       Source_Tables |-> source_count,
       Cloned_Tables |-> clone_count,
       Status |-> CloneStatus(source_count, clone_count)]>>

\* Entry: the two guards before the cursor is opened
clone_schema_enter ==
    /\ cl_pc = "idle"
    /\ \E conn \in {"none", "conn"}, source_db \in {"", "D"},
          source_schema \in {"", "S"},
          target_schema \in {"", "S_CLONE", "S_BAK"},
          exists \in BOOLEAN :
        /\ cl_args' = [conn |-> conn, source_db |-> source_db,
                       source_schema |-> source_schema,
                       target_schema |-> target_schema]
        /\ cl_source_exists' = exists
        /\ IF conn = "none"
           THEN /\ cl_ret' = [success |-> FALSE,
                              msg |-> <<"Not connected to Snowflake.">>,
                              df |-> <<>>]
                /\ cl_pc' = "done"
           ELSE IF source_db = "" \/ source_schema = "" \/ target_schema = ""
           THEN /\ cl_ret' = [success |-> FALSE,
                              msg |-> <<"Please provide Source Database, Source Schema, and a Target Schema name.">>,
                              df |-> <<>>]
                /\ cl_pc' = "done"
           ELSE /\ cl_ret' = cl_ret
                /\ cl_pc' = "check_source"
    /\ UNCHANGED <<cl_stmts, cl_hist, cl_counts>>

\* Every statement of the try block can raise; the except clause returns
CloneRaise(stmt, e) ==
    /\ cl_stmts' = Append(cl_stmts, stmt)
    /\ cl_hist' = Append(cl_hist, Raised(e))
    /\ cl_ret' = CloneExcept(e)
    /\ cl_pc' = "done"
    /\ UNCHANGED <<cl_args, cl_source_exists, cl_counts>>

\* The statement returned; the function goes on to the position given
CloneAnswer(stmt, answer, next_pc) ==
    /\ cl_stmts' = Append(cl_stmts, stmt)
    /\ cl_hist' = Append(cl_hist, answer)
    /\ cl_pc' = next_pc

\* SHOW SCHEMAS LIKE '{source_schema}' and the check of its rows
clone_schema_check_source ==
    /\ cl_pc = "check_source"
    /\ \/ \E e \in ErrMsgs : CloneRaise(SHOW_SCHEMAS_SOURCE, e)
       \/ LET n == IF cl_source_exists THEN 1 ELSE 0
          IN IF NoRowsFetched(n)
             THEN /\ CloneAnswer(SHOW_SCHEMAS_SOURCE, Rows(n), "done")
                  /\ cl_ret' = [success |-> FALSE,
                                msg |-> <<"Source schema ", cl_args.source_db,
                                          ".", cl_args.source_schema,
                                          " doesn't exist">>,
                                df |-> <<>>]
                  /\ UNCHANGED <<cl_args, cl_source_exists, cl_counts>>
             ELSE /\ CloneAnswer(SHOW_SCHEMAS_SOURCE, Rows(n), "clone")
                  /\ UNCHANGED <<cl_args, cl_source_exists, cl_counts, cl_ret>>

\* CREATE OR REPLACE SCHEMA ... CLONE ...
clone_schema_clone ==
    /\ cl_pc = "clone"
    /\ \/ \E e \in ErrMsgs : CloneRaise(CLONE_STMT, e)
       \/ /\ CloneAnswer(CLONE_STMT, [t |-> "ok"], "check_target")
          /\ UNCHANGED <<cl_args, cl_source_exists, cl_counts, cl_ret>>

\* SHOW SCHEMAS LIKE '{target_schema}' and the check of its rows
clone_schema_check_target ==
    /\ cl_pc = "check_target"
    /\ \/ \E e \in ErrMsgs : CloneRaise(SHOW_SCHEMAS_TARGET, e)
       \/ \E n \in 0..1 :
            IF NoRowsFetched(n)
            THEN /\ CloneAnswer(SHOW_SCHEMAS_TARGET, Rows(n), "done")
                 /\ cl_ret' = [success |-> FALSE,
                               msg |-> <<"Clone failed - target schema not created">>,
                               df |-> <<>>]
                 /\ UNCHANGED <<cl_args, cl_source_exists, cl_counts>>
            ELSE /\ CloneAnswer(SHOW_SCHEMAS_TARGET, Rows(n), "list_source")
                 /\ UNCHANGED <<cl_args, cl_source_exists, cl_counts, cl_ret>>

\* SHOW TABLES IN SCHEMA source; source_tables = [row[1] for row in ...]
clone_schema_list_source ==
    /\ cl_pc = "list_source"
    /\ \/ \E e \in ErrMsgs : CloneRaise(SHOW_TABLES_SOURCE, e)
       \/ \E n \in 0..MaxTables :
            /\ CloneAnswer(SHOW_TABLES_SOURCE, Rows(n), "list_target")
            /\ cl_counts' = [cl_counts EXCEPT !.source = n]
            /\ UNCHANGED <<cl_args, cl_source_exists, cl_ret>>

\* SHOW TABLES IN SCHEMA target, the summary frame and the successful return
clone_schema_list_target ==
    /\ cl_pc = "list_target"
    /\ \/ \E e \in ErrMsgs : CloneRaise(SHOW_TABLES_TARGET, e)
       \/ \E n \in 0..MaxTables :
            /\ CloneAnswer(SHOW_TABLES_TARGET, Rows(n), "done")
            /\ cl_counts' = [cl_counts EXCEPT !.clone = n]
            /\ cl_ret' = [success |-> TRUE,
                          msg |-> <<"Successfully Mirrored Schema ",
                                    cl_args.source_db, ".",
                                    cl_args.source_schema, " to ",
                                    cl_args.source_db, ".",
                                    cl_args.target_schema>>,
                          df |-> CloneSummary(cl_args, cl_counts.source, n)]
            /\ UNCHANGED <<cl_args, cl_source_exists>>

\* ------------------------------------------------------------------------
\* The warehouse's metadata, as far as the drift comparison reads it
\* ------------------------------------------------------------------------
Tables == 1..MaxTables          \* table names, in their sort order
Columns == {"a", "b"}
NULL == 0                       \* SQL NULL / Python None in a name or type cell
Absent == [present |-> FALSE]

\* Column name -> declared type maps a DESCRIBE TABLE can return
ColMaps ==
    { [present |-> TRUE, cols |-> {"a"}, type |-> [c \in Columns |-> "NUMBER"]],
      [present |-> TRUE, cols |-> {"b"}, type |-> [c \in Columns |-> "VARCHAR"]],
      [present |-> TRUE, cols |-> {"a", "b"}, type |-> [c \in Columns |-> "VARCHAR"]] }

\* One schema: each table name is absent or carries a column map
SchemaStates == [Tables -> ColMaps \cup {Absent}]

TableNames(schema) == {t \in Tables : schema[t].present}

\* All orders in which the elements of a set can be iterated
Orderings(S) ==
    {q \in [1..Cardinality(S) -> S] :
        \A i, j \in 1..Cardinality(S) : i # j => q[i] # q[j]}

VARIABLES
    wh,             \* the two schemas compared: [source, clone]
    td_pc,          \* position in compare_table_differences
    td_out,         \* history: how the table query ended (none / ok / raise)
    td_ret          \* the frame compare_table_differences returned

tdVars == <<td_pc, td_out, td_ret>>

EmptySchema == [t \in Tables |-> Absent]

InitDrift ==
    /\ wh = [source |-> EmptySchema, clone |-> EmptySchema]
    /\ td_pc = "idle"
    /\ td_out = "none"
    /\ td_ret = <<>>

\* ------------------------------------------------------------------------
\* compare_table_differences
\* ------------------------------------------------------------------------
MISSING_IN_SOURCE == "Missing in source - Table Dropped"
MISSING_IN_CLONE == "Missing in clone - Table Added"
PRESENT_IN_BOTH == "Present in both"

\* A LEFT JOIN in place of the FULL OUTER JOIN
FullOuterJoin_left(S, C) ==
    {<<s, c>> \in S \X C : s = c}
        \cup {<<s, NULL>> : s \in {x \in S : \A c \in C : x # c}}

\* FROM source_tables s FULL OUTER JOIN clone_tables c
\*   ON s.table_name = c.table_name
FullOuterJoin(S, C) ==
    {<<s, c>> \in S \X C : s = c}
        \cup {<<s, NULL>> : s \in {x \in S : \A c \in C : x # c}}
        \cup {<<NULL, c>> : c \in {x \in C : \A s \in S : x # s}}

\* COALESCE(s.table_name, c.table_name), CASE ... END AS difference
SelectDifference(r) ==
    [Table |-> IF r[1] # NULL THEN r[1] ELSE r[2],
     Difference |-> IF r[1] = NULL THEN MISSING_IN_SOURCE
                    ELSE IF r[2] = NULL THEN MISSING_IN_CLONE
                    ELSE PRESENT_IN_BOTH]

\* Collation order of the three difference texts
DifferenceRank(d) == CASE d = MISSING_IN_CLONE -> 1
                       [] d = MISSING_IN_SOURCE -> 2
                       [] d = PRESENT_IN_BOTH -> 3

\* ORDER BY difference, table_name
RowBefore(x, y) ==
    \/ DifferenceRank(x.Difference) < DifferenceRank(y.Difference)
    \/ /\ x.Difference = y.Difference
       /\ x.Table < y.Table

RECURSIVE OrderBy(_)
OrderBy(rows) ==
    IF rows = {} THEN <<>>
    ELSE LET first == CHOOSE x \in rows : \A y \in rows \ {x} : RowBefore(x, y)
         IN <<first>> \o OrderBy(rows \ {first})

\* The query without its WHERE clause
TableDiffQuery_noWhere(S, C) ==
    OrderBy({SelectDifference(r) : r \in FullOuterJoin(S, C)})

\* The whole query of compare_table_differences over two table-name sets
TableDiffQuery(S, C) ==
    LET joined == FullOuterJoin(S, C)
        kept == {r \in joined : r[1] = NULL \/ r[2] = NULL}
    IN OrderBy({SelectDifference(r) : r \in kept})

compare_table_differences ==
    /\ td_pc = "idle"
    /\ \E conn \in {"none", "conn"}, source \in SchemaStates, clone \in SchemaStates :
        /\ wh' = [source |-> source, clone |-> clone]
        /\ IF conn = "none"
           THEN /\ td_ret' = <<>>
                /\ td_out' = "none"
           ELSE \/ /\ td_out' = "raise"
                   /\ td_ret' = <<>>
                \/ /\ td_out' = "ok"
                   /\ td_ret' = TableDiffQuery(TableNames(source), TableNames(clone))
    /\ td_pc' = "done"

\* ------------------------------------------------------------------------
\* compare_column_differences
\* ------------------------------------------------------------------------
VARIABLES
    cd_pc,              \* position in compare_column_differences
    cd_common_out,      \* history: how the common-tables query ended
    common_tables,      \* rows of the common-tables query, in fetch order
    cd_i,               \* index of the next table of the for loop
    column_diff_data,   \* column-presence rows built so far
    datatype_diff_data, \* type rows built so far
    cd_log,             \* history: per table handled, how its DESCRIBEs ended
    cd_ret              \* the (column_diff_df, datatype_diff_df) pair returned

cdVars == <<cd_pc, cd_common_out, common_tables, cd_i, column_diff_data, datatype_diff_data,
            cd_log, cd_ret>>

InitColumnDiff ==
    /\ cd_pc = "idle"
    /\ cd_common_out = "none"
    /\ common_tables = <<>>
    /\ cd_i = 0
    /\ column_diff_data = <<>>
    /\ datatype_diff_data = <<>>
    /\ cd_log = <<>>
    /\ cd_ret = [column_diff |-> <<>>, datatype_diff |-> <<>>]

MISSING_COLUMN_IN_SOURCE == "Missing in source - Column Dropped"
MISSING_COLUMN_IN_CLONE == "Missing in clone - Column Added"
DATA_TYPE_CHANGED == "Data Type Changed"

\* SELECT s.table_name FROM tables s JOIN tables c ON s.table_name =
\* c.table_name WHERE s.table_schema = source AND c.table_schema = clone
CommonTablesQuery(S, C) == {r[1] : r \in {<<s, c>> \in S \X C : s = c}}

\* A classification that reports every column present on both sides
ColumnRows_ignoresEquality(table, col, source_cols, clone_cols) ==
    IF col \notin source_cols.cols
    THEN [column |-> <<[Table |-> table, Column |-> col,
                        Difference |-> MISSING_COLUMN_IN_SOURCE,
                        Source_Data_Type |-> NULL,
                        Clone_Data_Type |-> clone_cols.type[col]]>>,
          datatype |-> <<>>]
    ELSE IF col \notin clone_cols.cols
    THEN [column |-> <<[Table |-> table, Column |-> col,
                        Difference |-> MISSING_COLUMN_IN_CLONE,
                        Source_Data_Type |-> source_cols.type[col],
                        Clone_Data_Type |-> NULL]>>,
          datatype |-> <<>>]
    ELSE [column |-> <<>>,
          datatype |-> <<[Table |-> table, Column |-> col,
                          Source_Data_Type |-> source_cols.type[col],
                          Clone_Data_Type |-> clone_cols.type[col],
                          Difference |-> DATA_TYPE_CHANGED]>>]

\* The body of "for col in all_columns": the rows one column contributes
ColumnRows(table, col, source_cols, clone_cols) ==
    IF col \notin source_cols.cols
    THEN [column |-> <<[Table |-> table, Column |-> col,
                        Difference |-> MISSING_COLUMN_IN_SOURCE,
                        Source_Data_Type |-> NULL,
                        Clone_Data_Type |-> clone_cols.type[col]]>>,
          datatype |-> <<>>]
    ELSE IF col \notin clone_cols.cols
    THEN [column |-> <<[Table |-> table, Column |-> col,
                        Difference |-> MISSING_COLUMN_IN_CLONE,
                        Source_Data_Type |-> source_cols.type[col],
                        Clone_Data_Type |-> NULL]>>,
          datatype |-> <<>>]
    ELSE IF source_cols.type[col] # clone_cols.type[col]
    THEN [column |-> <<>>,
          datatype |-> <<[Table |-> table, Column |-> col,
                          Source_Data_Type |-> source_cols.type[col],
                          Clone_Data_Type |-> clone_cols.type[col],
                          Difference |-> DATA_TYPE_CHANGED]>>]
    ELSE [column |-> <<>>, datatype |-> <<>>]

RECURSIVE TableRows(_, _, _, _)
\* The rows of one table, its columns visited in the order given
TableRows(table, order, source_cols, clone_cols) ==
    IF order = <<>> THEN [column |-> <<>>, datatype |-> <<>>]
    ELSE LET here == ColumnRows(table, Head(order), source_cols, clone_cols)
             rest == TableRows(table, Tail(order), source_cols, clone_cols)
         IN [column |-> here.column \o rest.column,
             datatype |-> here.datatype \o rest.datatype]

\* An except clause that records the failure as a row of the column result
DescribeFailedRows_errorRow(table) ==
    <<[Table |-> table, Column |-> NULL, Difference |-> "ERROR",
       Source_Data_Type |-> NULL, Clone_Data_Type |-> NULL]>>

\* except Exception as e: log, traceback, continue -- no row is appended
DescribeFailedRows(table) == <<>>

\* Entry: the conn guard and the common-tables query, on given schemas
CompareColumnDifferencesEnter(conn, source, clone) ==
    /\ wh' = [source |-> source, clone |-> clone]
    /\ IF conn = "none"
       THEN /\ cd_pc' = "done"
            /\ common_tables' = <<>>
            /\ cd_common_out' = "none"
       ELSE \/ /\ cd_pc' = "done"
               /\ common_tables' = <<>>
               /\ cd_common_out' = "raise"
            \/ /\ cd_pc' = "loop"
               /\ common_tables' \in
                    Orderings(CommonTablesQuery(TableNames(source),
                                                TableNames(clone)))
               /\ cd_common_out' = "ok"
    /\ cd_log' = <<>>
    /\ cd_i' = 1
    /\ column_diff_data' = <<>>
    /\ datatype_diff_data' = <<>>
    /\ cd_ret' = [column_diff |-> <<>>, datatype_diff |-> <<>>]

\* A call of compare_column_differences on any connection and schemas
compare_column_differences_enter ==
    /\ cd_pc = "idle"
    /\ \E conn \in {"none", "conn"}, source \in SchemaStates, clone \in SchemaStates :
        CompareColumnDifferencesEnter(conn, source, clone)

\* "Execute DriftWatch": after compare_table_differences the page calls
\* compare_column_differences with the same connection and schemas
execute_driftwatch_columns ==
    /\ td_pc = "done"
    /\ cd_pc = "idle"
    /\ CompareColumnDifferencesEnter(IF td_out = "none" THEN "none" ELSE "conn",
                                     wh.source, wh.clone)

\* One iteration of "for table in common_tables"
compare_column_differences_table ==
    /\ cd_pc = "loop"
    /\ cd_i <= Len(common_tables)
    /\ LET table == common_tables[cd_i]
           source_cols == wh.source[table]
           clone_cols == wh.clone[table]
       IN \/ \E failed \in {"DESCRIBE source raised", "DESCRIBE clone raised"} :
               /\ cd_log' = Append(cd_log, [table |-> table, out |-> failed])
               /\ column_diff_data' = column_diff_data \o DescribeFailedRows(table)
               /\ datatype_diff_data' = datatype_diff_data
          \/ \E order \in Orderings(source_cols.cols \cup clone_cols.cols) :
               LET rows == TableRows(table, order, source_cols, clone_cols)
               IN /\ cd_log' = Append(cd_log, [table |-> table, out |-> "ok"])
                  /\ column_diff_data' = column_diff_data \o rows.column
                  /\ datatype_diff_data' = datatype_diff_data \o rows.datatype
    /\ cd_i' = cd_i + 1
    /\ UNCHANGED <<wh, cd_pc, cd_common_out, common_tables, cd_ret>>

\* After the loop: the two frames are built and returned
compare_column_differences_return ==
    /\ cd_pc = "loop"
    /\ cd_i > Len(common_tables)
    /\ cd_ret' = [column_diff |-> column_diff_data,
                  datatype_diff |-> datatype_diff_data]
    /\ cd_pc' = "done"
    /\ UNCHANGED <<wh, cd_common_out, common_tables, cd_i, column_diff_data,
                   datatype_diff_data, cd_log>>

\* ------------------------------------------------------------------------
\* DataQualityValidator
\* ------------------------------------------------------------------------
VARIABLES
    dq_pc,              \* position in run_dq_checks
    dq_kwargs,          \* the arguments of the call
    detailed_results,   \* rows of the checks processed so far
    total_checks,
    passed_checks,
    failed_checks,
    error_checks,
    overall_score,
    dq_hist,            \* history: per enabled check reached, how it ended
    dq_table,           \* the rows of the table under check
    dq_stmts,           \* history: the statements sent to the warehouse
    dq_ret              \* the tuple returned

dqCounters == <<detailed_results, total_checks, passed_checks, failed_checks,
                error_checks, overall_score>>

dqVars == <<dq_pc, dq_kwargs, dqCounters, dq_hist, dq_table, dq_stmts, dq_ret>>

DQ_PASS == "Pass"
DQ_FAIL == "Fail"
DQ_ERROR == "Error"
DQ_SKIP == "Skip"
DQ_NA == "N/A"
ROW_COUNT_CHECK == "Row Count Check"
DUPLICATE_ROWS_CHECK == "Duplicate Rows Check"
PENALTY == 10
SCORE_NA == <<"Quality Score: N/A">>

\* kwargs without a dq_min_rows key
NoMinRows == -1

\* the "N/A" written in the Actual cell of a check that did not run
ActualNotAvailable == -1

\* The statements of the two checks
COUNT_QUERY == "SELECT COUNT(*) FROM table"
COLUMNS_QUERY == "SELECT COLUMN_NAME, DATA_TYPE FROM INFORMATION_SCHEMA.COLUMNS"
DUPLICATES_QUERY == "SELECT COUNT(*) FROM (SELECT cols FROM table GROUP BY cols HAVING COUNT(*) > 1)"

\* A table as the number of times each full row occurs in it
RowValues == {"r", "s"}

RECURSIVE SumOver(_, _)
SumOver(f, S) ==
    IF S = {} THEN 0
    ELSE LET x == CHOOSE y \in S : TRUE IN f[x] + SumOver(f, S \ {x})

\* SELECT COUNT(*) FROM table
CountStar(table) == SumOver(table, DOMAIN table)

\* SELECT COUNT(*) FROM (SELECT cols ... GROUP BY cols HAVING COUNT(*) > 1)
DuplicateGroups(table) == Cardinality({r \in DOMAIN table : table[r] > 1})

TableContents == {t \in [RowValues -> 0..MaxRows] : CountStar(t) <= MaxRows}

NoDQReturn ==
    [summary |-> <<>>, detailed |-> <<>>, status |-> <<>>, score |-> <<>>,
     fig |-> FALSE]

InitDQ ==
    /\ dq_pc = "idle"
    /\ dq_kwargs = [args_ok |-> FALSE, dq_check_row_count |-> FALSE,
                    dq_min_rows |-> NoMinRows, dq_check_duplicate_rows |-> FALSE]
    /\ detailed_results = <<>>
    /\ total_checks = 0
    /\ passed_checks = 0
    /\ failed_checks = 0
    /\ error_checks = 0
    /\ overall_score = 100
    /\ dq_hist = <<>>
    /\ dq_table = [r \in RowValues |-> 0]
    /\ dq_stmts = <<>>
    /\ dq_ret = NoDQReturn

\* kwargs.get('dq_min_rows', 1)
MinRowsArg(kwargs) ==
    IF kwargs.dq_min_rows = NoMinRows THEN 1 ELSE kwargs.dq_min_rows

\* A check that wants more rows than the minimum
RunRowCountCheck_strict(count, min_rows) ==
    [Check |-> ROW_COUNT_CHECK, Column_Name |-> "N/A",
     Expected |-> min_rows, Actual |-> count,
     Status |-> IF count > min_rows THEN DQ_PASS ELSE DQ_FAIL]

\* _run_row_count_check, given the COUNT(*) the query returned
RunRowCountCheck(count, min_rows) ==
    [Check |-> ROW_COUNT_CHECK, Column_Name |-> "N/A",
     Expected |-> min_rows, Actual |-> count,
     Status |-> IF count >= min_rows THEN DQ_PASS ELSE DQ_FAIL]

\* _run_duplicate_rows_check when no columns were found
DuplicateCheckNotApplicable ==
    [Check |-> DUPLICATE_ROWS_CHECK, Column_Name |-> "All Columns",
     Expected |-> 0, Actual |-> ActualNotAvailable, Status |-> DQ_NA]

\* A check that tolerates one repeated row
RunDuplicateRowsCheck_tolerant(duplicate_count) ==
    [Check |-> DUPLICATE_ROWS_CHECK, Column_Name |-> "All Columns",
     Expected |-> 0, Actual |-> duplicate_count,
     Status |-> IF duplicate_count <= 1 THEN DQ_PASS ELSE DQ_FAIL]

\* _run_duplicate_rows_check, given the count the grouping query returned
RunDuplicateRowsCheck(duplicate_count) ==
    [Check |-> DUPLICATE_ROWS_CHECK, Column_Name |-> "All Columns",
     Expected |-> 0, Actual |-> duplicate_count,
     Status |-> IF duplicate_count = 0 THEN DQ_PASS ELSE DQ_FAIL]

\* A penalty charged for every result that is not a pass
Penalised_allButPass(score, status, penalty) ==
    IF status # DQ_PASS THEN score - penalty ELSE score

\* overall_score -= penalty, in the Fail and Error branches only
Penalised(score, status, penalty) ==
    IF status \in {DQ_FAIL, DQ_ERROR} THEN score - penalty ELSE score

Bump(n, cond) == IF cond THEN n + 1 ELSE n

\* A not-applicable result dropped like a skipped one
ProcessCheckResult_skipsNA(c, res, penalty) ==
    IF res.Status \in {DQ_SKIP, DQ_NA} THEN c
    ELSE [detailed_results |-> Append(c.detailed_results, res),
          total_checks |-> c.total_checks + 1,
          passed_checks |-> Bump(c.passed_checks, res.Status = DQ_PASS),
          failed_checks |-> Bump(c.failed_checks, res.Status = DQ_FAIL),
          error_checks |-> Bump(c.error_checks, res.Status = DQ_ERROR),
          overall_score |-> Penalised(c.overall_score, res.Status, penalty)]

\* process_check_result(res, penalty) for a single result row (the two checks
\* each return one dict, never a list): the counters after the call
ProcessCheckResult(c, res, penalty) ==
    IF res.Status = DQ_SKIP THEN c
    ELSE [detailed_results |-> Append(c.detailed_results, res),
          total_checks |-> c.total_checks + 1,
          passed_checks |-> Bump(c.passed_checks, res.Status = DQ_PASS),
          failed_checks |-> Bump(c.failed_checks, res.Status = DQ_FAIL),
          error_checks |-> Bump(c.error_checks, res.Status = DQ_ERROR),
          overall_score |-> Penalised(c.overall_score, res.Status, penalty)]

Counters ==
    [detailed_results |-> detailed_results, total_checks |-> total_checks,
     passed_checks |-> passed_checks, failed_checks |-> failed_checks,
     error_checks |-> error_checks, overall_score |-> overall_score]

SetCounters(c) ==
    /\ detailed_results' = c.detailed_results
    /\ total_checks' = c.total_checks
    /\ passed_checks' = c.passed_checks
    /\ failed_checks' = c.failed_checks
    /\ error_checks' = c.error_checks
    /\ overall_score' = c.overall_score

\* The outer "except Exception as e" of run_dq_checks
DQExcept(e) ==
    [summary |-> <<>>, detailed |-> <<>>,
     status |-> <<"An unexpected error occurred: ">> \o e,
     score |-> SCORE_NA, fig |-> FALSE]

\* min written for max
Max_min(a, b) == IF a >= b THEN b ELSE a

\* max(0, overall_score)
Max(a, b) == IF a >= b THEN a ELSE b

\* Entry: the locals are initialised and the argument guard is applied
run_dq_checks_enter ==
    /\ dq_pc = "idle"
    /\ \E args_ok \in BOOLEAN, row_count \in BOOLEAN,
          min_rows \in {NoMinRows} \cup (0..MaxRows), duplicate_rows \in BOOLEAN :
        /\ dq_kwargs' = [args_ok |-> args_ok, dq_check_row_count |-> row_count,
                         dq_min_rows |-> min_rows,
                         dq_check_duplicate_rows |-> duplicate_rows]
        /\ IF ~args_ok
           THEN /\ dq_ret' = [summary |-> <<>>, detailed |-> <<>>,
                              status |-> <<"Please select database, schema, and table to run DQ checks.">>,
                              score |-> SCORE_NA, fig |-> FALSE]
                /\ dq_pc' = "done"
           ELSE /\ dq_ret' = dq_ret
                /\ dq_pc' = "row_count"
    /\ SetCounters([detailed_results |-> <<>>, total_checks |-> 0,
                    passed_checks |-> 0, failed_checks |-> 0,
                    error_checks |-> 0, overall_score |-> 100])
    /\ dq_hist' = <<>>
    /\ dq_stmts' = <<>>
    /\ dq_table' \in TableContents

\* if kwargs.get('dq_check_row_count'): run the check and process its result
run_dq_checks_row_count ==
    /\ dq_pc = "row_count"
    /\ IF ~dq_kwargs.dq_check_row_count
       THEN /\ dq_pc' = "duplicate_rows"
            /\ UNCHANGED <<dqCounters, dq_hist, dq_stmts, dq_ret>>
       ELSE /\ dq_stmts' = Append(dq_stmts, COUNT_QUERY)
            /\ \/ \E e \in ErrMsgs :
                    /\ dq_hist' = Append(dq_hist, [check |-> ROW_COUNT_CHECK,
                                                   out |-> "raise", msg |-> e])
                    /\ dq_ret' = DQExcept(e)
                    /\ dq_pc' = "done"
                    /\ UNCHANGED dqCounters
               \/ LET count == CountStar(dq_table)
                  IN /\ dq_hist' = Append(dq_hist, [check |-> ROW_COUNT_CHECK,
                                                    out |-> "ok", value |-> count])
                     /\ SetCounters(ProcessCheckResult(Counters,
                            RunRowCountCheck(count, MinRowsArg(dq_kwargs)),
                            PENALTY))
                     /\ dq_pc' = "duplicate_rows"
                     /\ UNCHANGED dq_ret
    /\ UNCHANGED <<dq_kwargs, dq_table>>

\* if kwargs.get('dq_check_duplicate_rows'): run the check and process its
\* result.  The column listing swallows its own failure and returns [].
run_dq_checks_duplicate_rows ==
    /\ dq_pc = "duplicate_rows"
    /\ IF ~dq_kwargs.dq_check_duplicate_rows
       THEN /\ dq_pc' = "summary"
            /\ UNCHANGED <<dqCounters, dq_hist, dq_stmts, dq_ret>>
       ELSE \E columns \in {"listing raised", "no columns", "columns"} :
              IF columns # "columns"
              THEN /\ dq_stmts' = Append(dq_stmts, COLUMNS_QUERY)
                   /\ dq_hist' = Append(dq_hist, [check |-> DUPLICATE_ROWS_CHECK,
                                                  out |-> columns])
                   /\ SetCounters(ProcessCheckResult(Counters,
                          DuplicateCheckNotApplicable, PENALTY))
                   /\ dq_pc' = "summary"
                   /\ UNCHANGED dq_ret
              ELSE /\ dq_stmts' = dq_stmts \o <<COLUMNS_QUERY, DUPLICATES_QUERY>>
                   /\ \/ \E e \in ErrMsgs :
                           /\ dq_hist' = Append(dq_hist,
                                  [check |-> DUPLICATE_ROWS_CHECK,
                                   out |-> "raise", msg |-> e])
                           /\ dq_ret' = DQExcept(e)
                           /\ dq_pc' = "done"
                           /\ UNCHANGED dqCounters
                      \/ LET duplicate_count == DuplicateGroups(dq_table)
                         IN /\ dq_hist' = Append(dq_hist,
                                   [check |-> DUPLICATE_ROWS_CHECK,
                                    out |-> "ok", value |-> duplicate_count])
                            /\ SetCounters(ProcessCheckResult(Counters,
                                   RunDuplicateRowsCheck(duplicate_count),
                                   PENALTY))
                            /\ dq_pc' = "summary"
                            /\ UNCHANGED dq_ret
    /\ UNCHANGED <<dq_kwargs, dq_table>>

\* overall_score = max(0, overall_score); the summary and the score text
run_dq_checks_return ==
    /\ dq_pc = "summary"
    /\ overall_score' = Max(0, overall_score)
    /\ dq_ret' = [summary |-> [Total_Checks |-> total_checks,
                               Passed_Checks |-> passed_checks,
                               Failed_Checks |-> failed_checks,
                               Error_Checks |-> error_checks,
                               Quality_Score |-> IntStr(Max(0, overall_score))
                                                   \o <<".", "0", "0", "%">>],
                  detailed |-> detailed_results,
                  status |-> <<"Data quality checks completed.">>,
                  score |-> IntStr(Max(0, overall_score)) \o <<"/", "1", "0", "0">>,
                  fig |-> TRUE]
    /\ dq_pc' = "done"
    /\ UNCHANGED <<dq_kwargs, detailed_results, total_checks, passed_checks,
                   failed_checks, error_checks, dq_hist, dq_table, dq_stmts>>

\* ------------------------------------------------------------------------
\* The session: login form, Disconnect button and the gated application
\* ------------------------------------------------------------------------
VARIABLES
    session_conn,   \* st.session_state.conn: NoHandle or a connection handle
    is_logged_in,   \* st.session_state.is_logged_in
    handles,        \* per connection handle: "unborn", "open" or "closed"
    closes,         \* history: how many times close() was called on a handle
    ss_event,       \* history: what the last script run did
    ss_msg,         \* the message the sidebar showed last
    last_use,       \* history: the last operation that went to the warehouse
    stored,         \* the result sets kept in st.session_state, per key
    stored_on       \* history: the handle each kept result was computed on

ssVars == <<session_conn, is_logged_in, handles, closes, ss_event, ss_msg,
            last_use, stored, stored_on>>

Handles == 1..MaxConnects

\* st.session_state.conn = None
NoHandle == 0

NoUse == [op |-> "none"]

\* The operations the application runs on st.session_state.conn
Operations ==
    {"catalog listing", "clone_schema", "drift comparison",
     "validate_test_cases", "run_dq_checks"}

\* The keys under which the pages keep their results
SessionKeys ==
    {"table_diff", "column_diff", "datatype_diff", "test_results",
     "dq_summary", "dq_detailed", "dq_score", "dq_fig", "dq_status"}

\* The keys an operation's page assigns after the operation returned
StoredBy(op) ==
    CASE op = "drift comparison" -> {"table_diff", "column_diff", "datatype_diff"}
      [] op = "validate_test_cases" -> {"test_results"}
      [] op = "run_dq_checks" ->
            {"dq_summary", "dq_detailed", "dq_score", "dq_fig", "dq_status"}
      [] OTHER -> {}

\* What a run of an operation can give, as far as the session tells runs apart
ResultValues == {"result A", "result B"}

CONNECTED_MSG == <<"Successfully connected!">>
CONNECTION_FAILED == <<"Connection failed: ">>
FILL_IN_MSG == <<"Please fill in all fields">>

InitSession ==
    /\ session_conn = NoHandle
    /\ is_logged_in = FALSE
    /\ handles = [h \in Handles |-> "unborn"]
    /\ closes = [h \in Handles |-> 0]
    /\ ss_event = "start"
    /\ ss_msg = <<>>
    /\ last_use = NoUse
    /\ stored = [k \in SessionKeys |-> "unset"]
    /\ stored_on = [k \in SessionKeys |-> NoHandle]

\* get_snowflake_connection: (conn, message), or (None, message) when
\* snowflake.connector.connect raised
GetSnowflakeConnection(out) ==
    IF out.t = "raise"
    THEN [conn |-> NoHandle, msg |-> CONNECTION_FAILED \o out.msg]
    ELSE [conn |-> out.handle, msg |-> CONNECTED_MSG]

\* The handle a successful connect returns: one that did not exist before
FreshHandles ==
    {h \in Handles : /\ handles[h] = "unborn"
                     /\ \A g \in 1..(h - 1) : handles[g] # "unborn"}

\* A login form that marks the session logged in whatever connect returned
AfterConnect_alwaysLoggedIn(new_conn) ==
    [conn |-> new_conn, is_logged_in |-> TRUE]

\* st.session_state.conn = conn; is_logged_in = (conn is not None)
AfterConnect(new_conn) ==
    [conn |-> new_conn, is_logged_in |-> new_conn # NoHandle]

\* A Disconnect button that closes the handle and keeps the session
AfterDisconnect_keepsSession(old_conn, logged_in) ==
    [conn |-> old_conn, is_logged_in |-> logged_in]

\* st.session_state.conn = None; st.session_state.is_logged_in = False
AfterDisconnect(old_conn, logged_in) ==
    [conn |-> NoHandle, is_logged_in |-> FALSE]

\* A Disconnect button that also forgets the results
StoredAfterDisconnect_cleared(old) == [k \in SessionKeys |-> "unset"]

\* The Disconnect handler assigns none of the result keys
StoredAfterDisconnect(old) == old

\* A script run in which "Connect" was pressed: the form is shown only while
\* the session is not logged in
login_form_connect ==
    /\ ~is_logged_in
    /\ \E fields_ok \in BOOLEAN :
        IF ~fields_ok
        THEN /\ ss_msg' = FILL_IN_MSG
             /\ ss_event' = "fields missing"
             /\ UNCHANGED <<session_conn, is_logged_in, handles>>
        ELSE \E out \in {[t |-> "raise", msg |-> e] : e \in ErrMsgs} \cup
                        {[t |-> "ok", handle |-> h] : h \in FreshHandles} :
               LET got == GetSnowflakeConnection(out)
                   after == AfterConnect(got.conn)
               IN /\ session_conn' = after.conn
                  /\ is_logged_in' = after.is_logged_in
                  /\ handles' = IF out.t = "ok"
                                THEN [handles EXCEPT ![out.handle] = "open"]
                                ELSE handles
                  /\ ss_msg' = got.msg
                  /\ ss_event' = IF out.t = "ok" THEN "connected"
                                 ELSE "connect failed"
    /\ UNCHANGED <<closes, last_use, stored, stored_on>>

\* A script run in which "Disconnect" was pressed: the button is shown only
\* while the session is logged in; the run ends at st.rerun()
disconnect_button ==
    /\ is_logged_in
    /\ session_conn # NoHandle
    /\ LET after == AfterDisconnect(session_conn, is_logged_in)
       IN /\ handles' = [handles EXCEPT ![session_conn] = "closed"]
          /\ closes' = [closes EXCEPT ![session_conn] = @ + 1]
          /\ session_conn' = after.conn
          /\ is_logged_in' = after.is_logged_in
    /\ ss_event' = "disconnected"
    /\ stored' = StoredAfterDisconnect(stored)
    /\ UNCHANGED <<ss_msg, last_use, stored_on>>

\* if st.session_state.is_logged_in:
MainGate(logged_in) == logged_in

\* A script run that reaches the main application and runs one of its
\* operations on st.session_state.conn
main_application ==
    /\ MainGate(is_logged_in)
    /\ \E op \in Operations, result \in ResultValues :
        /\ last_use' = [op |-> op, handle |-> session_conn,
                        logged_in |-> is_logged_in,
                        handle_state |-> IF session_conn = NoHandle THEN "none"
                                         ELSE handles[session_conn]]
        /\ stored' = [k \in SessionKeys |->
                        IF k \in StoredBy(op) THEN result ELSE stored[k]]
        /\ stored_on' = [k \in SessionKeys |->
                           IF k \in StoredBy(op) THEN session_conn
                           ELSE stored_on[k]]
    /\ ss_event' = "operation"
    /\ UNCHANGED <<session_conn, is_logged_in, handles, closes, ss_msg>>

\* ------------------------------------------------------------------------
\* The metadata listings: get_databases, get_schemas, get_tables,
\* get_columns_for_table, _get_column_details_for_dq
\* ------------------------------------------------------------------------
VARIABLES
    ls_fn,          \* the listing function called last
    ls_args,        \* its arguments
    ls_stmts,       \* history: the statements the call sent
    ls_out,         \* history: how the call went
    ls_log,         \* the line it logged
    ls_ret,         \* the list it returned
    ls_raised       \* whether an exception left the call

lsVars == <<ls_fn, ls_args, ls_stmts, ls_out, ls_log, ls_ret, ls_raised>>

ListingFunctions ==
    {"get_databases", "get_schemas", "get_tables", "get_columns_for_table",
     "_get_column_details_for_dq"}

\* The arguments each function tests in its guard, besides conn
RequiredArgs(fn) ==
    CASE fn = "get_databases" -> {}
      [] fn = "get_schemas" -> {"database"}
      [] fn = "get_tables" -> {"database", "schema"}
      [] fn = "get_columns_for_table" -> {"database", "schema", "table"}
      [] fn = "_get_column_details_for_dq" -> {"database", "schema", "table"}

\* The statement each function sends
ListingStatement(fn) ==
    CASE fn = "get_databases" -> "SHOW DATABASES"
      [] fn = "get_schemas" -> "SHOW SCHEMAS IN DATABASE"
      [] fn = "get_tables" -> "SHOW TABLES IN SCHEMA"
      [] fn = "get_columns_for_table" ->
            "SELECT COLUMN_NAME FROM INFORMATION_SCHEMA.COLUMNS"
      [] fn = "_get_column_details_for_dq" -> COLUMNS_QUERY

\* Calls of a function: None / "" stand for a missing argument, "-" for a
\* parameter the function does not have
ListingArgs(fn) ==
    [conn : {"none", "conn"},
     database : IF "database" \in RequiredArgs(fn) THEN {"", "D"} ELSE {"-"},
     schema : IF "schema" \in RequiredArgs(fn) THEN {"", "S"} ELSE {"-"},
     table : IF "table" \in RequiredArgs(fn) THEN {"", "T"} ELSE {"-"}]

\* if not conn or not database or not schema or not table
MissingArgument(fn, args) ==
    \/ args.conn = "none"
    \/ \E a \in RequiredArgs(fn) : args[a] = ""

\* Names and types as the warehouse spells them, and their upper case
ObjectNames == {"ORDERS", "test_cases", "ORDER_KPIS"}
TypeNames == {"number", "TEXT"}

Upper(name) ==
    CASE name = "test_cases" -> "TEST_CASES"
      [] name = "number" -> "NUMBER"
      [] OTHER -> name

\* The rows a listing query can return: the name column of each row, and
\* for the column details also the type column
ListingRows(fn) ==
    IF fn = "_get_column_details_for_dq"
    THEN SeqsUpTo([name : {"a"}, type : TypeNames], MaxTables)
    ELSE SeqsUpTo(ObjectNames, MaxTables)

RECURSIVE SelectNames(_, _)
SelectNames(rows, keep) ==
    IF rows = <<>> THEN <<>>
    ELSE (IF rows[1] \in keep THEN <<rows[1]>> ELSE <<>>)
            \o SelectNames(Tail(rows), keep)

\* The list each function builds from the fetched rows
ListingResult(fn, rows) ==
    CASE fn = "get_tables" ->
            SelectNames(rows, {t \in ObjectNames :
                                 Upper(t) \notin {"TEST_CASES", "ORDER_KPIS"}})
      [] fn = "_get_column_details_for_dq" ->
            [i \in 1..Len(rows) |->
                [name |-> rows[i].name, type |-> Upper(rows[i].type)]]
      [] OTHER -> rows

\* An except clause that lets the exception through
ListingExcept_reraises(e) == [ret |-> <<>>, raised |-> TRUE]

\* except Exception as e: ...; return []
ListingExcept(e) == [ret |-> <<>>, raised |-> FALSE]

InitListing ==
    /\ ls_fn = "none"
    /\ ls_args = [conn |-> "none", database |-> "-", schema |-> "-",
                  table |-> "-"]
    /\ ls_stmts = <<>>
    /\ ls_out = "none"
    /\ ls_log = [level |-> "none"]
    /\ ls_ret = <<>>
    /\ ls_raised = FALSE

\* One call of a listing function: the guard, then the try block in which
\* conn.cursor() or cursor.execute() may raise
ListingCall(fn) ==
    /\ ls_fn' = fn
    /\ \E args \in ListingArgs(fn) :
        /\ ls_args' = args
        /\ IF MissingArgument(fn, args)
           THEN /\ ls_stmts' = <<>>
                /\ ls_out' = "guard"
                /\ ls_log' = [level |-> "warning"]
                /\ ls_ret' = <<>>
                /\ ls_raised' = FALSE
           ELSE \/ \E e \in ErrMsgs :
                     /\ ls_stmts' = <<>>
                     /\ ls_out' = "cursor raised"
                     /\ ls_log' = [level |-> "error", text |-> e]
                     /\ ls_ret' = ListingExcept(e).ret
                     /\ ls_raised' = ListingExcept(e).raised
                \/ \E e \in ErrMsgs :
                     /\ ls_stmts' = <<ListingStatement(fn)>>
                     /\ ls_out' = "query raised"
                     /\ ls_log' = [level |-> "error", text |-> e]
                     /\ ls_ret' = ListingExcept(e).ret
                     /\ ls_raised' = ListingExcept(e).raised
                \/ \E rows \in ListingRows(fn) :
                     /\ ls_stmts' = <<ListingStatement(fn)>>
                     /\ ls_out' = "ok"
                     /\ ls_log' = [level |-> "info"]
                     /\ ls_ret' = ListingResult(fn, rows)
                     /\ ls_raised' = FALSE

get_databases == ListingCall("get_databases")

get_schemas == ListingCall("get_schemas")

get_tables == ListingCall("get_tables")

get_columns_for_table == ListingCall("get_columns_for_table")

get_column_details_for_dq == ListingCall("_get_column_details_for_dq")

\* ------------------------------------------------------------------------
\* The TEST_CASES catalog: get_test_case_tables and get_test_cases
\* ------------------------------------------------------------------------
VARIABLES
    tk_fn,          \* the function called last
    tk_args,        \* its arguments
    tk_catalog,     \* the TEST_CASES table of the schema at the call
    tk_stmts,       \* history: the statements the call sent
    tk_out,         \* history: how the call went
    tk_ret,         \* the list it returned
    tk_raised       \* whether an exception left the call

tkVars == <<tk_fn, tk_args, tk_catalog, tk_stmts, tk_out, tk_ret, tk_raised>>

\* The statements of the two functions
COUNT_TEST_CASES_TABLE == "SELECT COUNT(*) FROM information_schema.tables WHERE table_name = 'TEST_CASES'"
SELECT_TABLE_NAMES == "SELECT DISTINCT TABLE_NAME FROM TEST_CASES"
SELECT_ALL_CASES == "SELECT ... FROM TEST_CASES ORDER BY TEST_CASE_ID"
SELECT_TABLE_CASES == "SELECT ... FROM TEST_CASES WHERE TABLE_NAME = table ORDER BY TEST_CASE_ID"

\* The "All" entry of the category list
ALL == <<"A", "l", "l">>

\* Rows a TEST_CASES table can hold
TestCasesRows ==
    Catalog \cup
    { <<5, "OTH", StrVal(<<"T", "A">>), "d", <<"x", " ", "T", "A">>,
        StrVal(<<"1">>)>> }

\* A schema without the table, or with the table and some of the rows
NoCatalog == [exists |-> FALSE, rows |-> {}]

CatalogStates ==
    {NoCatalog} \cup
    {[exists |-> TRUE, rows |-> R] :
        R \in {X \in SUBSET TestCasesRows : Cardinality(X) <= MaxCases}}

\* Table arguments of get_test_cases
TableArgs == {ALL, <<"T", "B">>, <<"T", "A">>}

\* Character order of the collation
Alphabet == <<" ", ".", "0", "1", "9", "A", "B", "C", "D", "S", "T", "l">>

CharRank(c) == CHOOSE i \in 1..Len(Alphabet) : Alphabet[i] = c

RECURSIVE TextLeq(_, _)
TextLeq(a, b) ==
    IF a = <<>> THEN TRUE
    ELSE IF b = <<>> THEN FALSE
    ELSE IF a[1] # b[1] THEN CharRank(a[1]) < CharRank(b[1])
    ELSE TextLeq(Tail(a), Tail(b))

\* SELECT COUNT(*) FROM information_schema.tables WHERE ... 'TEST_CASES'
CountCatalogTable(catalog) == IF catalog.exists THEN 1 ELSE 0

\* A check that never finds the table missing
CatalogMissing_never(count) == FALSE

\* if cursor.fetchone()[0] == 0
CatalogMissing(count) == count = 0

\* SELECT DISTINCT TABLE_NAME ... WHERE TABLE_NAME IS NOT NULL
\* ORDER BY TABLE_NAME: the orders the warehouse can return
SelectTableNames(rows) ==
    LET names == {r[3].v : r \in {x \in rows : x[3].k = "str"}}
    IN {o \in Orderings(names) :
            \A i, j \in 1..Len(o) : i < j => TextLeq(o[i], o[j])}

\* A query that never restricts the table
WhereTable_ignoresFilter(rows, table) == rows

\* The rows the query of get_test_cases selects: all of them for "All",
\* else those whose TABLE_NAME equals the argument
WhereTable(rows, table) ==
    IF table = ALL THEN rows
    ELSE {r \in rows : r[3].k = "str" /\ r[3].v = table}

\* ... ORDER BY TEST_CASE_ID: the orders the warehouse can return
SelectCases(rows, table) ==
    {o \in Orderings(WhereTable(rows, table)) :
        \A i, j \in 1..Len(o) : i < j => o[i][1] <= o[j][1]}

InitTestCatalog ==
    /\ tk_fn = "none"
    /\ tk_args = [conn |-> "none", database |-> "", schema |-> "", table |-> "-"]
    /\ tk_catalog = NoCatalog
    /\ tk_stmts = <<>>
    /\ tk_out = "none"
    /\ tk_ret = <<>>
    /\ tk_raised = FALSE

\* except Exception as e: ...; return ["All"] / return []
CatalogExcept(fallback) == [ret |-> fallback, raised |-> FALSE]

\* The part the two functions share: guard, cursor, existence check, then
\* the query of the table.  fallback is what the guard, the existence check
\* and the except clause return; Answers the lists the query can give.
CatalogCall(fn, args, catalog, fallback, stmt, Answers) ==
    /\ tk_fn' = fn
    /\ tk_args' = args
    /\ tk_catalog' = catalog
    /\ IF args.conn = "none" \/ args.database = "" \/ args.schema = ""
       THEN /\ tk_stmts' = <<>>
            /\ tk_out' = "guard"
            /\ tk_ret' = fallback
            /\ tk_raised' = FALSE
       ELSE \/ /\ tk_stmts' = <<>>
               /\ tk_out' = "cursor raised"
               /\ tk_ret' = CatalogExcept(fallback).ret
               /\ tk_raised' = CatalogExcept(fallback).raised
            \/ /\ tk_stmts' = <<COUNT_TEST_CASES_TABLE>>
               /\ tk_out' = "count raised"
               /\ tk_ret' = CatalogExcept(fallback).ret
               /\ tk_raised' = CatalogExcept(fallback).raised
            \/ /\ CatalogMissing(CountCatalogTable(catalog))
               /\ tk_stmts' = <<COUNT_TEST_CASES_TABLE>>
               /\ tk_out' = "not found"
               /\ tk_ret' = fallback
               /\ tk_raised' = FALSE
            \/ /\ ~CatalogMissing(CountCatalogTable(catalog))
               /\ tk_stmts' = <<COUNT_TEST_CASES_TABLE, stmt>>
               /\ \/ /\ tk_out' = "query raised"
                     /\ tk_ret' = CatalogExcept(fallback).ret
                     /\ tk_raised' = CatalogExcept(fallback).raised
                  \/ /\ catalog.exists
                     /\ tk_out' = "ok"
                     /\ tk_ret' \in Answers
                     /\ tk_raised' = FALSE

get_test_case_tables ==
    \E conn \in {"none", "conn"}, database \in {"", "D"}, schema \in {"", "S"},
       catalog \in CatalogStates :
        CatalogCall("get_test_case_tables",
                    [conn |-> conn, database |-> database, schema |-> schema,
                     table |-> "-"],
                    catalog, <<ALL>>, SELECT_TABLE_NAMES,
                    {<<ALL>> \o o : o \in SelectTableNames(catalog.rows)})

get_test_cases ==
    \E conn \in {"none", "conn"}, database \in {"", "D"}, schema \in {"", "S"},
       table \in TableArgs, catalog \in CatalogStates :
        CatalogCall("get_test_cases",
                    [conn |-> conn, database |-> database, schema |-> schema,
                     table |-> table],
                    catalog, <<>>,
                    IF table = ALL THEN SELECT_ALL_CASES ELSE SELECT_TABLE_CASES,
                    SelectCases(catalog.rows, table))

\* ------------------------------------------------------------------------
\* The KPI Validation page
\* ------------------------------------------------------------------------
VARIABLES
    kpi_selected,   \* the KPI checkboxes that are ticked
    kpi_stmts,      \* history: the statements the page sent for KPIs
    kpi_report,     \* the rows of the KPI validation report
    kpi_msg         \* the message the page showed last

kpiVars == <<kpi_selected, kpi_stmts, kpi_report, kpi_msg>>

\* The nine checkboxes of the page
KpiNames ==
    {"Total Orders", "Total Revenue", "Average Order Value",
     "Maximum Order Value", "Minimum Order Value", "Completed Orders",
     "Cancelled Orders", "Orders in April 2025", "Unique Customers"}

KPI_NOT_IMPLEMENTED == "KPI validation function needs to be implemented"

InitKPI ==
    /\ kpi_selected = KpiNames
    /\ kpi_stmts = <<>>
    /\ kpi_report = <<>>
    /\ kpi_msg = "none"

\* A script run in which one checkbox was ticked or cleared
kpi_checkbox ==
    /\ \E k \in KpiNames :
        kpi_selected' = IF k \in kpi_selected THEN kpi_selected \ {k}
                        ELSE kpi_selected \cup {k}
    /\ kpi_msg' = "none"
    /\ UNCHANGED <<kpi_stmts, kpi_report>>

\* A script run in which "Execute DriftWatch" was pressed on the page: the
\* handler shows a notice and calls nothing
kpi_execute_driftwatch ==
    /\ kpi_msg' = KPI_NOT_IMPLEMENTED
    /\ UNCHANGED <<kpi_selected, kpi_stmts, kpi_report>>

\* ------------------------------------------------------------------------
\* The Test Case Validation page: from the selection to the cases passed on
\* ------------------------------------------------------------------------
VARIABLES
    page_test_cases,     \* test_cases: what get_test_cases returned
    selected_cases,      \* the names chosen in the multiselect
    selected_test_cases, \* the list handed to validate_test_cases
    page_msg             \* history: what the button press led to

pageVars == <<page_test_cases, selected_cases, selected_test_cases, page_msg>>

\* Rows of a catalog in which two cases share the abbreviation "CNT"
PageRows ==
    TestCasesRows \cup
    { <<6, "CNT", StrVal(<<"T", "A">>), "d", <<"x", " ", "T", "A">>,
        StrVal(<<"2">>)>> }

\* test_case_names = [f"{case[1]}" for case in test_cases]
TestCaseNames(cases) == [i \in 1..Len(cases) |-> cases[i][2]]

\* How often an entry occurs in a list
Occurrences(x, list) == Cardinality({i \in 1..Len(list) : list[i] = x})

\* What the multiselect can return: option entries in the order chosen, none
\* of them more often than the option list holds it
Selections(options) ==
    {q \in SeqsUpTo({options[i] : i \in 1..Len(options)}, MaxCases) :
        \A i \in 1..Len(q) : Occurrences(q[i], q) <= Occurrences(q[i], options)}

\* the cases of the list carrying a name, in list order
CasesNamed(name, cases) ==
    SelectSeq(cases, LAMBDA case : case[2] = name)

\* An inner loop without its break
RECURSIVE SelectedTestCases_noBreak(_, _)
SelectedTestCases_noBreak(selected, cases) ==
    IF selected = <<>> THEN <<>>
    ELSE CasesNamed(Head(selected), cases)
            \o SelectedTestCases_noBreak(Tail(selected), cases)

\* for name in selected_cases: for case in test_cases:
\*     if case[1] == name: selected_test_cases.append(case); break
RECURSIVE SelectedTestCases(_, _)
SelectedTestCases(selected, cases) ==
    IF selected = <<>> THEN <<>>
    ELSE SubSeq(CasesNamed(Head(selected), cases), 1, 1)
            \o SelectedTestCases(Tail(selected), cases)

InitTestPage ==
    /\ page_test_cases = <<>>
    /\ selected_cases = <<>>
    /\ selected_test_cases = <<>>
    /\ page_msg = "none"

\* A script run of the page in which "Execute DriftWatch" was pressed: the
\* catalog is read, the selection is mapped to cases and the cases are
\* handed to validate_test_cases
test_page_execute_driftwatch ==
    \E R \in {X \in SUBSET PageRows : Cardinality(X) <= MaxCases + 1} :
      \E cases \in SelectCases(R, ALL) :
        \E selected \in Selections(TestCaseNames(cases)) :
            /\ page_test_cases' = cases
            /\ selected_cases' = selected
            /\ IF selected # <<>>
               THEN /\ selected_test_cases' =
                         SelectedTestCases(selected, cases)
                    /\ page_msg' = "validate_test_cases called"
               ELSE /\ selected_test_cases' = <<>>
                    /\ page_msg' = "Please select at least one test case"

vars == <<tcVars, clVars, wh, tdVars, cdVars, dqVars, ssVars, lsVars, tkVars, kpiVars, pageVars>>

Init ==
    /\ InitTC /\ InitClone /\ InitDrift /\ InitColumnDiff /\ InitDQ
    /\ InitSession
    /\ InitListing
    /\ InitTestCatalog
    /\ InitKPI
    /\ InitTestPage

NextTC ==
    \/ validate_test_cases_enter /\ UNCHANGED <<clVars, wh, tdVars, cdVars, dqVars, ssVars, lsVars, tkVars, kpiVars, pageVars>>
    \/ validate_test_cases_case /\ UNCHANGED <<clVars, wh, tdVars, cdVars, dqVars, ssVars, lsVars, tkVars, kpiVars, pageVars>>
    \/ validate_test_cases_return /\ UNCHANGED <<clVars, wh, tdVars, cdVars, dqVars, ssVars, lsVars, tkVars, kpiVars, pageVars>>

SpecTC == Init /\ [][NextTC]_vars

NextClone ==
    \/ clone_schema_enter /\ UNCHANGED <<tcVars, wh, tdVars, cdVars, dqVars, ssVars, lsVars, tkVars, kpiVars, pageVars>>
    \/ clone_schema_check_source /\ UNCHANGED <<tcVars, wh, tdVars, cdVars, dqVars, ssVars, lsVars, tkVars, kpiVars, pageVars>>
    \/ clone_schema_clone /\ UNCHANGED <<tcVars, wh, tdVars, cdVars, dqVars, ssVars, lsVars, tkVars, kpiVars, pageVars>>
    \/ clone_schema_check_target /\ UNCHANGED <<tcVars, wh, tdVars, cdVars, dqVars, ssVars, lsVars, tkVars, kpiVars, pageVars>>
    \/ clone_schema_list_source /\ UNCHANGED <<tcVars, wh, tdVars, cdVars, dqVars, ssVars, lsVars, tkVars, kpiVars, pageVars>>
    \/ clone_schema_list_target /\ UNCHANGED <<tcVars, wh, tdVars, cdVars, dqVars, ssVars, lsVars, tkVars, kpiVars, pageVars>>

SpecClone == Init /\ [][NextClone]_vars

NextTableDiff ==
    compare_table_differences /\ UNCHANGED <<tcVars, clVars, cdVars, dqVars, ssVars, lsVars, tkVars, kpiVars, pageVars>>

SpecTableDiff == Init /\ [][NextTableDiff]_vars

NextColumnDiff ==
    \/ compare_column_differences_enter /\ UNCHANGED <<tcVars, clVars, tdVars, dqVars, ssVars, lsVars, tkVars, kpiVars, pageVars>>
    \/ compare_column_differences_table /\ UNCHANGED <<tcVars, clVars, tdVars, dqVars, ssVars, lsVars, tkVars, kpiVars, pageVars>>
    \/ compare_column_differences_return /\ UNCHANGED <<tcVars, clVars, tdVars, dqVars, ssVars, lsVars, tkVars, kpiVars, pageVars>>

SpecColumnDiff == Init /\ [][NextColumnDiff]_vars

NextDrift ==
    \/ compare_table_differences /\ UNCHANGED <<tcVars, clVars, cdVars, dqVars, ssVars, lsVars, tkVars, kpiVars, pageVars>>
    \/ execute_driftwatch_columns /\ UNCHANGED <<tcVars, clVars, tdVars, dqVars, ssVars, lsVars, tkVars, kpiVars, pageVars>>
    \/ compare_column_differences_table /\ UNCHANGED <<tcVars, clVars, tdVars, dqVars, ssVars, lsVars, tkVars, kpiVars, pageVars>>
    \/ compare_column_differences_return /\ UNCHANGED <<tcVars, clVars, tdVars, dqVars, ssVars, lsVars, tkVars, kpiVars, pageVars>>

SpecDrift == Init /\ [][NextDrift]_vars

NextDQ ==
    \/ run_dq_checks_enter /\ UNCHANGED <<tcVars, clVars, wh, tdVars, cdVars, ssVars, lsVars, tkVars, kpiVars, pageVars>>
    \/ run_dq_checks_row_count /\ UNCHANGED <<tcVars, clVars, wh, tdVars, cdVars, ssVars, lsVars, tkVars, kpiVars, pageVars>>
    \/ run_dq_checks_duplicate_rows /\ UNCHANGED <<tcVars, clVars, wh, tdVars, cdVars, ssVars, lsVars, tkVars, kpiVars, pageVars>>
    \/ run_dq_checks_return /\ UNCHANGED <<tcVars, clVars, wh, tdVars, cdVars, ssVars, lsVars, tkVars, kpiVars, pageVars>>

SpecDQ == Init /\ [][NextDQ]_vars

NextSession ==
    \/ login_form_connect /\ UNCHANGED <<tcVars, clVars, wh, tdVars, cdVars, dqVars, lsVars, tkVars, kpiVars, pageVars>>
    \/ disconnect_button /\ UNCHANGED <<tcVars, clVars, wh, tdVars, cdVars, dqVars, lsVars, tkVars, kpiVars, pageVars>>
    \/ main_application /\ UNCHANGED <<tcVars, clVars, wh, tdVars, cdVars, dqVars, lsVars, tkVars, kpiVars, pageVars>>

SpecSession == Init /\ [][NextSession]_vars

NextListing ==
    \/ get_databases /\ UNCHANGED <<tcVars, clVars, wh, tdVars, cdVars, dqVars, ssVars, tkVars, kpiVars, pageVars>>
    \/ get_schemas /\ UNCHANGED <<tcVars, clVars, wh, tdVars, cdVars, dqVars, ssVars, tkVars, kpiVars, pageVars>>
    \/ get_tables /\ UNCHANGED <<tcVars, clVars, wh, tdVars, cdVars, dqVars, ssVars, tkVars, kpiVars, pageVars>>
    \/ get_columns_for_table /\ UNCHANGED <<tcVars, clVars, wh, tdVars, cdVars, dqVars, ssVars, tkVars, kpiVars, pageVars>>
    \/ get_column_details_for_dq /\ UNCHANGED <<tcVars, clVars, wh, tdVars, cdVars, dqVars, ssVars, tkVars, kpiVars, pageVars>>

SpecListing == Init /\ [][NextListing]_vars

NextTestCatalog ==
    \/ get_test_case_tables /\ UNCHANGED <<tcVars, clVars, wh, tdVars, cdVars, dqVars, ssVars, lsVars, kpiVars, pageVars>>
    \/ get_test_cases /\ UNCHANGED <<tcVars, clVars, wh, tdVars, cdVars, dqVars, ssVars, lsVars, kpiVars, pageVars>>

SpecTestCatalog == Init /\ [][NextTestCatalog]_vars

NextKPI ==
    \/ kpi_checkbox /\ UNCHANGED <<tcVars, clVars, wh, tdVars, cdVars, dqVars, ssVars, lsVars, tkVars, pageVars>>
    \/ kpi_execute_driftwatch /\ UNCHANGED <<tcVars, clVars, wh, tdVars, cdVars, dqVars, ssVars, lsVars, tkVars, pageVars>>

SpecKPI == Init /\ [][NextKPI]_vars

NextTestPage ==
    test_page_execute_driftwatch /\ UNCHANGED <<tcVars, clVars, wh, tdVars, cdVars, dqVars, ssVars, lsVars, tkVars, kpiVars>>

SpecTestPage == Init /\ [][NextTestPage]_vars

\* ------------------------------------------------------------------------
\* Properties of validate_test_cases
\* ------------------------------------------------------------------------
\* t is s without its leading and trailing whitespace
IsTrimOf(t, s) ==
    /\ \E i \in 0..Len(s) :
         /\ i + Len(t) <= Len(s)
         /\ t = SubSeq(s, i + 1, i + Len(t))
         /\ \A k \in (1..i) \cup ((i + Len(t) + 1)..Len(s)) : s[k] \in Whitespace
    /\ t # <<>> => (t[1] \notin Whitespace /\ t[Len(t)] \notin Whitespace)

\* The actual value of a case whose query did not raise, as text
ActualText(out) == IF out.t = "row" THEN PyStr(out.v) ELSE <<"0">>

\* C1: every case handled so far has exactly one of the three statuses; a
\* case whose query raised has EXECUTION ERROR; a case whose query executed
\* has PASS exactly when the string form of the actual value equals the
\* trimmed string form of the expected value, and FAIL otherwise.
C1_StatusIsComparison ==
    /\ Len(results) = Len(tc_outcomes)
    /\ \A i \in 1..Len(results) :
         LET out == tc_outcomes[i]
             row == results[i]
         IN /\ row.STATUS \in {PASS, FAIL, EXECUTION_ERROR}
            /\ out.t = "raise" => row.STATUS = EXECUTION_ERROR
            /\ out.t # "raise" =>
                 /\ row.STATUS \in {PASS, FAIL}
                 /\ row.STATUS = PASS <=>
                      IsTrimOf(ActualText(out), PyStr(test_cases[i][6]))

\* A finished run in which the expected value " 10\n" passed against the
\* actual value 10 and the second case raised.
C1_Witness ==
    /\ tc_pc = "done"
    /\ Len(results) = 2
    /\ test_cases[1][2] = "PAD"
    /\ tc_outcomes[1] = [t |-> "row", v |-> IntVal(10)]
    /\ results[1].STATUS = PASS
    /\ tc_outcomes[2].t = "raise"
    /\ results[2].STATUS = EXECUTION_ERROR

\* C2: a run that got past the guards returns exactly one row per selected
\* case, in the order given, and every case with a usable table name had
\* its statement sent to the warehouse, whatever raised before it.
C2_OneRowPerCase ==
    /\ tc_pc = "loop" => Len(results) = tc_i - 1
    /\ (tc_pc = "done" /\ tc_conn # "none" /\ test_cases # <<>>) =>
         /\ Len(tc_ret.df) = Len(test_cases)
         /\ \A i \in 1..Len(test_cases) :
              /\ tc_ret.df[i].TEST_CASE = test_cases[i][2]
              /\ tc_ret.df[i].CATEGORY = test_cases[i][3]
         /\ Len(tc_outcomes) = Len(test_cases)
         /\ Len(tc_executed) =
              Cardinality({i \in 1..Len(test_cases) : test_cases[i][3].k = "str"})

\* A finished run whose first case raised and whose second case was still
\* executed and compared.
C2_Witness ==
    /\ tc_pc = "done"
    /\ Len(tc_ret.df) = 2
    /\ tc_outcomes[1].t = "raise"
    /\ tc_outcomes[2].t = "row"
    /\ Len(tc_executed) = 2
    /\ tc_ret.df[2].STATUS = FAIL

\* C12 as stated: the rewrite leaves a reference that is already written as
\* database.schema.table alone, so the statement sent for a case is a fixed
\* point of the rewrite that produced it.
C12_AsStated ==
    (tc_pc = "loop" /\ tc_i > 1 /\ test_cases[tc_i - 1][3].k = "str") =>
        LET table_name == test_cases[tc_i - 1][3].v
            sent == tc_executed[Len(tc_executed)]
        IN ReSub(table_name, Qualified(DB, SCHEMA, table_name), sent) = sent

\* C13: a case whose query returned no row has the actual value "0", has
\* PASS exactly when its trimmed expected value is "0" and FAIL otherwise,
\* and is never an EXECUTION ERROR.
C13_NoRowIsZero ==
    \A i \in 1..Len(results) :
        tc_outcomes[i].t = "norow" =>
            /\ results[i].ACTUAL_RESULT = <<"0">>
            /\ results[i].STATUS \in {PASS, FAIL}
            /\ results[i].STATUS = PASS <=>
                 IsTrimOf(<<"0">>, PyStr(test_cases[i][6]))

\* A finished run with two cases whose queries returned no row: the one
\* expecting 0 passed, the one expecting "10" failed.
C13_Witness ==
    /\ tc_pc = "done"
    /\ Len(tc_ret.df) = 2
    /\ tc_outcomes[1].t = "norow"
    /\ tc_outcomes[2].t = "norow"
    /\ test_cases[1][2] = "NUM"
    /\ tc_ret.df[1].STATUS = PASS
    /\ tc_ret.df[1].ACTUAL_RESULT = <<"0">>
    /\ test_cases[2][2] = "CNT"
    /\ tc_ret.df[2].STATUS = FAIL

\* the part of an error row's detail after the "QUERY ERROR: " prefix
ErrorExcerpt(row) ==
    SubSeq(row.ACTUAL_RESULT, Len(QUERY_ERROR) + 1, Len(row.ACTUAL_RESULT))

\* C14 as stated: the detail is cut to a bounded length, so a warehouse
\* message of the greatest length is never carried whole.
C14_AsStated ==
    \A i \in 1..Len(results) :
        (tc_outcomes[i].t = "raise" /\ tc_outcomes[i].msg \in ErrMsgs
            /\ Len(tc_outcomes[i].msg) = MaxErrLen) =>
            Len(ErrorExcerpt(results[i])) < MaxErrLen

\* C14, amended: the detail of a case whose query raised is "QUERY ERROR: "
\* followed by the first line of the message: the text before its first
\* line break, or all of it when it has none, whatever its length.
C14_DetailIsFirstLine ==
    \A i \in 1..Len(results) :
        tc_outcomes[i].t = "raise" =>
            LET msg == tc_outcomes[i].msg
                detail == results[i].ACTUAL_RESULT
                excerpt == ErrorExcerpt(results[i])
            IN /\ Len(detail) >= Len(QUERY_ERROR)
               /\ SubSeq(detail, 1, Len(QUERY_ERROR)) = QUERY_ERROR
               /\ Len(excerpt) <= Len(msg)
               /\ excerpt = SubSeq(msg, 1, Len(excerpt))
               /\ \A k \in 1..Len(excerpt) : excerpt[k] # "\n"
               /\ Len(excerpt) < Len(msg) => msg[Len(excerpt) + 1] = "\n"

\* A finished run in which one message of the greatest length without a
\* line break was carried whole and one message was cut at its line break.
C14_Witness ==
    /\ tc_pc = "done"
    /\ Len(tc_ret.df) = 2
    /\ tc_outcomes[1].t = "raise"
    /\ tc_outcomes[1].msg = <<"e", "e">>
    /\ tc_ret.df[1].ACTUAL_RESULT = QUERY_ERROR \o <<"e", "e">>
    /\ tc_outcomes[2].t = "raise"
    /\ tc_outcomes[2].msg = <<"e", "\n">>
    /\ tc_ret.df[2].ACTUAL_RESULT = QUERY_ERROR \o <<"e">>

\* ------------------------------------------------------------------------
\* Properties of clone_schema
\* ------------------------------------------------------------------------
PastGuards(args) ==
    args.conn # "none" /\ args.source_db # "" /\ args.source_schema # ""
        /\ args.target_schema # ""

\* text e occurs in message m as a contiguous run
Embeds(m, e) == \E i \in 0..(Len(m) - Len(e)) : SubSeq(m, i + 1, i + Len(e)) = e

CloneNominallySucceeded ==
    /\ Len(cl_hist) >= 3
    /\ cl_hist[2] = [t |-> "ok"]
    /\ cl_hist[3] = Rows(1)

\* What C7 promises of the return value, given the two listed counts
CloneReportsCounts(ns, nc) ==
    /\ cl_ret.success = TRUE
    /\ Len(cl_ret.df) = 1
    /\ cl_ret.df[1].Source_Tables = ns
    /\ cl_ret.df[1].Cloned_Tables = nc
    /\ cl_ret.df[1].Status = STATUS_SUCCESS <=> ns = nc
    /\ cl_ret.df[1].Status = STATUS_PARTIAL <=> ns # nc

C8_RaiseBecomesFailure ==
    \A i \in 1..Len(cl_hist) :
        cl_hist[i].t = "raise" =>
            /\ i = Len(cl_hist)
            /\ cl_pc = "done"
            /\ cl_ret.success = FALSE
            /\ Embeds(cl_ret.msg, cl_hist[i].msg)
            /\ cl_ret.df = <<>>

\* The last statement of the function, the listing of the clone's tables,
\* raised after the clone itself had succeeded.
C8_Witness ==
    /\ cl_pc = "done"
    /\ Len(cl_hist) = 5
    /\ cl_stmts[5] = SHOW_TABLES_TARGET
    /\ cl_hist[5].t = "raise"
    /\ cl_ret.success = FALSE

\* ------------------------------------------------------------------------
\* Properties of the drift comparison
\* ------------------------------------------------------------------------
SourceTables == TableNames(wh.source)
CloneTables == TableNames(wh.clone)

\* the indexes of the rows of a frame that are about table t (and column c)
RowsOfTable(frame, t) == {k \in 1..Len(frame) : frame[k].Table = t}
RowsOfColumn(frame, t, c) ==
    {k \in 1..Len(frame) : frame[k].Table = t /\ frame[k].Column = c}

\* C9: when the table query returns, its rows name exactly the tables in
\* the symmetric difference of the source set and the clone set, each once;
\* a name only in the clone is tagged missing-in-source, a name only in the
\* source is tagged missing-in-clone, and no name in both sets appears.
C9_TableDiffIsSymmetricDifference ==
    td_out = "ok" =>
        /\ \A t \in Tables :
             Cardinality(RowsOfTable(td_ret, t)) =
                 IF (t \in SourceTables) # (t \in CloneTables) THEN 1 ELSE 0
        /\ \A k \in 1..Len(td_ret) :
             /\ td_ret[k].Table \in CloneTables \ SourceTables
                  <=> td_ret[k].Difference = MISSING_IN_SOURCE
             /\ td_ret[k].Table \in SourceTables \ CloneTables
                  <=> td_ret[k].Difference = MISSING_IN_CLONE

\* A comparison with one table on each side only and one table on both.
C9_Witness ==
    /\ td_out = "ok"
    /\ SourceTables \ CloneTables # {}
    /\ CloneTables \ SourceTables # {}
    /\ Len(td_ret) = 2
    /\ td_ret[1].Difference = MISSING_IN_CLONE
    /\ td_ret[2].Difference = MISSING_IN_SOURCE

\* the iterations of the for loop done so far
Handled == 1..Len(cd_log)
HandledOk == {k \in Handled : cd_log[k].out = "ok"}
HandledFailed == {k \in Handled : cd_log[k].out # "ok"}

\* C10: every row of either result is about a table present in both
\* schemas, and for each common table whose two descriptions were fetched,
\* every column of the union has exactly one row in the column-presence
\* result when it is absent on one side (the absent side's type empty),
\* exactly one row in the type result when it is present on both sides with
\* different types, and no row otherwise; no (table, column) pair is in both
\* results or twice in one.
C10_ColumnClassification ==
    /\ \A k \in 1..Len(column_diff_data) :
         column_diff_data[k].Table \in SourceTables \cap CloneTables
    /\ \A k \in 1..Len(datatype_diff_data) :
         datatype_diff_data[k].Table \in SourceTables \cap CloneTables
    /\ \A t \in Tables, c \in Columns :
         Cardinality(RowsOfColumn(column_diff_data, t, c))
             + Cardinality(RowsOfColumn(datatype_diff_data, t, c)) <= 1
    /\ \A h \in HandledOk :
         LET t == cd_log[h].table
             src == wh.source[t]
             cln == wh.clone[t]
         IN \A c \in Columns :
              LET inColumn == RowsOfColumn(column_diff_data, t, c)
                  inType == RowsOfColumn(datatype_diff_data, t, c)
              IN /\ Cardinality(inColumn) =
                      IF c \in src.cols \cup cln.cols
                         /\ (c \in src.cols) # (c \in cln.cols) THEN 1 ELSE 0
                 /\ Cardinality(inType) =
                      IF c \in src.cols \cap cln.cols
                         /\ src.type[c] # cln.type[c] THEN 1 ELSE 0
                 /\ \A k \in inColumn :
                      /\ c \notin src.cols =>
                           /\ column_diff_data[k].Source_Data_Type = NULL
                           /\ column_diff_data[k].Clone_Data_Type = cln.type[c]
                      /\ c \notin cln.cols =>
                           /\ column_diff_data[k].Clone_Data_Type = NULL
                           /\ column_diff_data[k].Source_Data_Type = src.type[c]

\* A finished scan that found one column missing in the source and one
\* column of changed type, in schemas whose table sets differ.
C10_Witness ==
    /\ cd_pc = "done"
    /\ Len(cd_ret.column_diff) = 1
    /\ cd_ret.column_diff[1].Difference = MISSING_COLUMN_IN_SOURCE
    /\ Len(cd_ret.datatype_diff) = 1
    /\ SourceTables # CloneTables

\* C3 as stated: a common table whose description failed has an
\* error-tagged row in the output.
C3_AsStated ==
    cd_pc = "done" =>
        \A h \in HandledFailed :
            RowsOfTable(cd_ret.column_diff, cd_log[h].table)
                \cup RowsOfTable(cd_ret.datatype_diff, cd_log[h].table) # {}

\* the number of rows a described table contributes to the two results
DiffCount(t) ==
    Cardinality({c \in wh.source[t].cols \cup wh.clone[t].cols :
                    \/ c \notin wh.source[t].cols \cap wh.clone[t].cols
                    \/ wh.source[t].type[c] # wh.clone[t].type[c]})

\* C3, amended: a common table whose description fails on either side
\* contributes no row to either result (the failure is only logged); the
\* scan goes on to every remaining common table, and the rows of the tables
\* described before and after it are all in the returned results.
C3_FailedTableSkipped ==
    /\ cd_pc = "loop" => Len(cd_log) = cd_i - 1
    /\ \A h \in Handled : cd_log[h].table = common_tables[h]
    /\ \A h \in HandledFailed :
         RowsOfTable(column_diff_data, cd_log[h].table)
             \cup RowsOfTable(datatype_diff_data, cd_log[h].table) = {}
    /\ \A h \in HandledOk :
         Cardinality(RowsOfTable(column_diff_data, cd_log[h].table))
             + Cardinality(RowsOfTable(datatype_diff_data, cd_log[h].table))
           = DiffCount(cd_log[h].table)
    /\ (cd_pc = "done" /\ cd_common_out = "ok") =>
         /\ Len(cd_log) = Len(common_tables)
         /\ cd_ret.column_diff = column_diff_data
         /\ cd_ret.datatype_diff = datatype_diff_data

\* A finished scan of two common tables that both differ: the description
\* of the first failed, the second was still compared and its rows returned.
C3_Witness ==
    /\ cd_pc = "done"
    /\ Len(cd_log) = 2
    /\ cd_log[1].out = "DESCRIBE clone raised"
    /\ DiffCount(cd_log[1].table) > 0
    /\ cd_log[2].out = "ok"
    /\ Len(cd_ret.column_diff) + Len(cd_ret.datatype_diff) > 0
    /\ RowsOfTable(cd_ret.column_diff, cd_log[1].table) = {}

\* ------------------------------------------------------------------------
\* Properties of run_dq_checks
\* ------------------------------------------------------------------------
\* the call returned a summary (it got past the guard and nothing raised)
DQReported == dq_pc = "done" /\ dq_ret.fig = TRUE

\* an enabled check raised
DQRaised == \E k \in 1..Len(dq_hist) : dq_hist[k].out = "raise"

RowsWithStatus(frame, statuses) ==
    {k \in 1..Len(frame) : frame[k].Status \in statuses}

\* C4 as stated: with both checks enabled, when one of them raises the
\* failing check is reported with an error status and the other check's
\* result row is still reported.
C4_AsStated ==
    (dq_pc = "done" /\ dq_kwargs.args_ok /\ dq_kwargs.dq_check_row_count
        /\ dq_kwargs.dq_check_duplicate_rows /\ DQRaised) =>
        \E k, m \in 1..Len(dq_ret.detailed) :
            /\ dq_ret.detailed[k].Status = DQ_ERROR
            /\ dq_ret.detailed[m].Check # dq_ret.detailed[k].Check

\* C5 as stated: the reported score is passed / total x 100.
C5_AsStated ==
    (DQReported /\ dq_ret.summary.Total_Checks > 0) =>
        \E score \in 0..100 :
            /\ dq_ret.score = IntStr(score) \o <<"/", "1", "0", "0">>
            /\ score * dq_ret.summary.Total_Checks
                 = dq_ret.summary.Passed_Checks * 100

\* C5, amended: whenever a score is reported it is 100 minus 10 for each
\* reported check whose status is fail (or error), floored at 0; a pass or a
\* not-applicable result costs nothing.
C5_ScoreIsPenaltyBased ==
    DQReported =>
        LET bad == Cardinality(RowsWithStatus(dq_ret.detailed, {DQ_FAIL, DQ_ERROR}))
            score == Max(0, 100 - 10 * bad)
        IN /\ dq_ret.score = IntStr(score) \o <<"/", "1", "0", "0">>
           /\ dq_ret.summary.Quality_Score = IntStr(score) \o <<".", "0", "0", "%">>

\* One pass and one fail out of two checks, reported as 90.
C5_Witness ==
    /\ DQReported
    /\ dq_ret.summary.Total_Checks = 2
    /\ dq_ret.summary.Passed_Checks = 1
    /\ dq_ret.summary.Failed_Checks = 1
    /\ dq_ret.score = <<"9", "0", "/", "1", "0", "0">>

\* ------------------------------------------------------------------------
\* Properties of a whole drift comparison ("Execute DriftWatch")
\* ------------------------------------------------------------------------
\* the tables that both schemas hold with the same columns and types
IdenticalTables ==
    {t \in SourceTables \cap CloneTables :
        /\ wh.source[t].cols = wh.clone[t].cols
        /\ \A c \in wh.source[t].cols : wh.source[t].type[c] = wh.clone[t].type[c]}

\* C11: a table present in both schemas with identical column names and
\* types has no row in the table diff, the column diff or the type diff, at
\* any point of the comparison and in what it returns; so when the two
\* schemas are identical the three results are empty.
C11_IdenticalTablesAbsent ==
    /\ \A t \in IdenticalTables :
         /\ RowsOfTable(td_ret, t) = {}
         /\ RowsOfTable(column_diff_data, t) = {}
         /\ RowsOfTable(datatype_diff_data, t) = {}
         /\ RowsOfTable(cd_ret.column_diff, t) = {}
         /\ RowsOfTable(cd_ret.datatype_diff, t) = {}
    /\ wh.source = wh.clone =>
         /\ td_ret = <<>>
         /\ cd_ret.column_diff = <<>>
         /\ cd_ret.datatype_diff = <<>>

\* A finished comparison of two identical, non-empty schemas in which every
\* query returned: all tables were described and the three results are
\* empty.
C11_Witness ==
    /\ td_out = "ok"
    /\ cd_pc = "done"
    /\ cd_common_out = "ok"
    /\ wh.source = wh.clone
    /\ Cardinality(SourceTables) = MaxTables
    /\ Len(cd_log) = MaxTables
    /\ \A h \in Handled : cd_log[h].out = "ok"
    /\ td_ret = <<>>
    /\ cd_ret.column_diff = <<>>
    /\ cd_ret.datatype_diff = <<>>

\* the rows of a check among the rows processed so far
RowsOfCheck(check) ==
    {k \in 1..Len(detailed_results) : detailed_results[k].Check = check}

\* how an enabled check that was reached ended, if it was reached
EndedAs(check, outs) ==
    \E h \in 1..Len(dq_hist) : dq_hist[h].check = check /\ dq_hist[h].out \in outs

\* C15: the row-count check of a table with N rows and minimum M has Pass
\* exactly when N >= M and Fail otherwise, where M is 1 when the call gives
\* no minimum.
C15_RowCountThreshold ==
    LET N == CountStar(dq_table)
        M == IF dq_kwargs.dq_min_rows = NoMinRows THEN 1
             ELSE dq_kwargs.dq_min_rows
    IN /\ EndedAs(ROW_COUNT_CHECK, {"ok"}) <=> RowsOfCheck(ROW_COUNT_CHECK) # {}
       /\ \A k \in RowsOfCheck(ROW_COUNT_CHECK) :
            /\ detailed_results[k].Status \in {DQ_PASS, DQ_FAIL}
            /\ detailed_results[k].Status = DQ_PASS <=> N >= M
            /\ detailed_results[k].Actual = N
            /\ detailed_results[k].Expected = M

\* A reported run without a minimum on a table with exactly one row: the
\* boundary N = M = 1, which passes.
C15_Witness ==
    /\ DQReported
    /\ dq_kwargs.dq_min_rows = NoMinRows
    /\ CountStar(dq_table) = 1
    /\ \E k \in 1..Len(dq_ret.detailed) :
         /\ dq_ret.detailed[k].Check = ROW_COUNT_CHECK
         /\ dq_ret.detailed[k].Status = DQ_PASS

\* C16: the duplicate-rows check has Pass exactly when no full row occurs
\* more than once in the table and Fail when one does; when the column
\* listing gives no columns (it found none or it failed) the check has N/A
\* and the grouping query is never sent.
C16_DuplicateRows ==
    LET NoColumns == EndedAs(DUPLICATE_ROWS_CHECK, {"no columns", "listing raised"})
        Repeated == {r \in RowValues : dq_table[r] > 1}
    IN /\ EndedAs(DUPLICATE_ROWS_CHECK, {"ok", "no columns", "listing raised"})
            <=> RowsOfCheck(DUPLICATE_ROWS_CHECK) # {}
       /\ \A k \in RowsOfCheck(DUPLICATE_ROWS_CHECK) :
            IF NoColumns
            THEN detailed_results[k].Status = DQ_NA
            ELSE /\ detailed_results[k].Status \in {DQ_PASS, DQ_FAIL}
                 /\ detailed_results[k].Status = DQ_PASS <=> Repeated = {}
       /\ NoColumns =>
            \A n \in 1..Len(dq_stmts) : dq_stmts[n] # DUPLICATES_QUERY

\* A reported run on a table in which one full row occurs twice: the
\* grouping query was sent and the check failed.
C16_Witness ==
    /\ DQReported
    /\ \E r \in RowValues : dq_table[r] = 2
    /\ \E n \in 1..Len(dq_stmts) : dq_stmts[n] = DUPLICATES_QUERY
    /\ \E k \in 1..Len(dq_ret.detailed) :
         /\ dq_ret.detailed[k].Check = DUPLICATE_ROWS_CHECK
         /\ dq_ret.detailed[k].Status = DQ_FAIL
         /\ dq_ret.detailed[k].Actual = 1

\* ------------------------------------------------------------------------
\* Properties of the session
\* ------------------------------------------------------------------------
\* C17: the session is marked logged in exactly when it holds a connection
\* handle; after a failed connect attempt it is not logged in and holds no
\* handle; and every operation that went to the warehouse was started while
\* the session was logged in and held a handle.
C17_LoggedInIffHandle ==
    /\ is_logged_in <=> session_conn # NoHandle
    /\ ss_event = "connect failed" =>
         (~is_logged_in /\ session_conn = NoHandle)
    /\ ss_event \in {"start", "connect failed", "fields missing", "disconnected"}
         => ~is_logged_in
    /\ last_use # NoUse => (last_use.logged_in /\ last_use.handle # NoHandle)

\* A connect attempt that failed after an earlier connection had been used
\* and disconnected: the session is not logged in and holds no handle.
C17_Witness ==
    /\ ss_event = "connect failed"
    /\ \E h \in Handles : handles[h] = "closed"
    /\ last_use # NoUse
    /\ ~is_logged_in
    /\ session_conn = NoHandle

\* C18: Disconnect closes the handle the session held; the only handle that
\* can still be open is the one the session holds; every operation went to
\* the warehouse on a handle that was open at that time; and no handle is
\* closed more than once.
C18_ClosedNeverUsed ==
    /\ \A h \in Handles :
         /\ closes[h] <= 1
         /\ handles[h] = "closed" <=> closes[h] = 1
         /\ handles[h] = "open" <=> session_conn = h
    /\ ss_event = "disconnected" =>
         (session_conn = NoHandle /\ \E h \in Handles : handles[h] = "closed")
    /\ last_use # NoUse => last_use.handle_state = "open"

\* A second connection in use after the first one was used and closed:
\* the operation ran on the open handle, the closed one was closed once.
C18_Witness ==
    /\ handles[1] = "closed"
    /\ closes[1] = 1
    /\ handles[2] = "open"
    /\ session_conn = 2
    /\ ss_event = "operation"
    /\ last_use.handle = 2
    /\ last_use.handle_state = "open"

\* ------------------------------------------------------------------------
\* Properties of the metadata listings
\* ------------------------------------------------------------------------
\* C19: a listing call whose connection or other required argument is
\* missing sends no statement and returns the empty list; a call whose
\* cursor or query raised returns the empty list; and no exception leaves
\* any call.
C19_ListingNeverRaises ==
    ls_fn \in ListingFunctions =>
        LET missing == \/ ls_args.conn = "none"
                       \/ /\ ls_fn # "get_databases"
                          /\ ls_args.database = ""
                       \/ /\ ls_fn \notin {"get_databases", "get_schemas"}
                          /\ ls_args.schema = ""
                       \/ /\ ls_fn \in {"get_columns_for_table",
                                        "_get_column_details_for_dq"}
                          /\ ls_args.table = ""
        IN /\ ~ls_raised
           /\ missing <=> ls_out = "guard"
           /\ missing => (ls_stmts = <<>> /\ ls_ret = <<>>)
           /\ ls_out \in {"cursor raised", "query raised"} => ls_ret = <<>>
           /\ ls_out = "query raised" => ls_stmts = <<ListingStatement(ls_fn)>>

\* A call of the column-detail listing with every argument given whose
\* query raised: the statement was sent and the empty list came back.
C19_Witness ==
    /\ ls_fn = "_get_column_details_for_dq"
    /\ ls_args = [conn |-> "conn", database |-> "D", schema |-> "S",
                  table |-> "T"]
    /\ ls_out = "query raised"
    /\ ls_stmts = <<COLUMNS_QUERY>>
    /\ ls_ret = <<>>
    /\ ~ls_raised

\* ------------------------------------------------------------------------
\* Properties of the TEST_CASES catalog functions
\* ------------------------------------------------------------------------
\* the statements that read the TEST_CASES table itself
ReadsTestCases == {SELECT_TABLE_NAMES, SELECT_ALL_CASES, SELECT_TABLE_CASES}

\* C20: when the schema has no TEST_CASES table, get_test_cases returns the
\* empty list and get_test_case_tables returns the list holding only "All",
\* no exception leaves the call and no statement that reads TEST_CASES is
\* sent.
C20_MissingCatalog ==
    (tk_fn # "none" /\ ~tk_catalog.exists) =>
        /\ tk_fn = "get_test_cases" => tk_ret = <<>>
        /\ tk_fn = "get_test_case_tables" => tk_ret = <<ALL>>
        /\ ~tk_raised
        /\ \A n \in 1..Len(tk_stmts) : tk_stmts[n] \notin ReadsTestCases

\* A call of get_test_cases with every argument given on a schema without
\* the table: only the existence check was sent and the list is empty.
C20_Witness ==
    /\ tk_fn = "get_test_cases"
    /\ tk_args = [conn |-> "conn", database |-> "D", schema |-> "S",
                  table |-> <<"T", "B">>]
    /\ ~tk_catalog.exists
    /\ tk_out = "not found"
    /\ tk_stmts = <<COUNT_TEST_CASES_TABLE>>
    /\ tk_ret = <<>>
    /\ ~tk_raised

\* C21: a call of get_test_cases that read the catalog returns, for the
\* filter "All", every row of the catalog, and for any other filter exactly
\* the rows whose TABLE_NAME equals the filter; each row once, in
\* non-decreasing order of TEST_CASE_ID.
C21_FilterAndOrder ==
    (tk_fn = "get_test_cases" /\ tk_out = "ok") =>
        LET returned == {tk_ret[i] : i \in 1..Len(tk_ret)}
        IN /\ tk_args.table = ALL => returned = tk_catalog.rows
           /\ tk_args.table # ALL =>
                returned = {r \in tk_catalog.rows : r[3] = StrVal(tk_args.table)}
           /\ Cardinality(returned) = Len(tk_ret)
           /\ \A i, j \in 1..Len(tk_ret) : i < j => tk_ret[i][1] <= tk_ret[j][1]

\* A call with the filter "TA" on a catalog that holds one case of table TA
\* and one of table TB: only the TA case came back.
C21_Witness ==
    /\ tk_fn = "get_test_cases"
    /\ tk_out = "ok"
    /\ tk_args.table = <<"T", "A">>
    /\ Cardinality(tk_catalog.rows) = 2
    /\ \E r \in tk_catalog.rows : r[3] = StrVal(<<"T", "B">>)
    /\ Len(tk_ret) = 1
    /\ tk_ret[1][2] = "OTH"

\* ------------------------------------------------------------------------
\* Properties of the KPI Validation page
\* ------------------------------------------------------------------------
\* C22 as stated: once a comparison was asked for, every selected KPI was
\* executed against the source schema and against the target schema and has
\* a report row whose status is Match exactly when the two values are equal.
C22_AsStated ==
    kpi_msg # "none" =>
        \A k \in kpi_selected :
            /\ \E n \in 1..Len(kpi_stmts) :
                 kpi_stmts[n] = [kpi |-> k, schema |-> "source"]
            /\ \E n \in 1..Len(kpi_stmts) :
                 kpi_stmts[n] = [kpi |-> k, schema |-> "target"]
            /\ \E n \in 1..Len(kpi_report) :
                 /\ kpi_report[n].kpi = k
                 /\ kpi_report[n].status = "Match"
                      <=> kpi_report[n].source = kpi_report[n].target

\* ------------------------------------------------------------------------
\* Properties of the summary of run_dq_checks
\* ------------------------------------------------------------------------
\* C23: in every reported summary Total Checks is the number of enabled
\* checks that returned a result, which is the number of detail rows;
\* Passed + Failed + Error is Total less the not-applicable results; only
\* the duplicate-rows check without columns is not applicable, its row is
\* listed, and with nothing failed the score is still 100.
C23_SummaryCounts ==
    DQReported =>
        LET s == dq_ret.summary
            returned == {h \in 1..Len(dq_hist) : dq_hist[h].out # "raise"}
            na == RowsWithStatus(dq_ret.detailed, {DQ_NA})
            counted == s.Passed_Checks + s.Failed_Checks + s.Error_Checks
        IN /\ s.Total_Checks = Cardinality(returned)
           /\ s.Total_Checks = Len(dq_ret.detailed)
           /\ counted <= s.Total_Checks
           /\ counted = s.Total_Checks - Cardinality(na)
           /\ na # {} <=> EndedAs(DUPLICATE_ROWS_CHECK,
                                  {"no columns", "listing raised"})
           /\ \A k \in na : dq_ret.detailed[k].Check = DUPLICATE_ROWS_CHECK
           /\ (na # {} /\ s.Failed_Checks = 0 /\ s.Error_Checks = 0) =>
                dq_ret.score = <<"1", "0", "0", "/", "1", "0", "0">>

\* A reported run whose row-count check passed and whose duplicate-rows
\* check found no columns: Total 2, Passed 1, nothing failed, score 100.
C23_Witness ==
    /\ DQReported
    /\ dq_ret.summary.Total_Checks = 2
    /\ dq_ret.summary.Passed_Checks = 1
    /\ dq_ret.summary.Failed_Checks = 0
    /\ dq_ret.summary.Error_Checks = 0
    /\ Len(dq_ret.detailed) = 2
    /\ dq_ret.detailed[2].Status = DQ_NA
    /\ dq_ret.score = <<"1", "0", "0", "/", "1", "0", "0">>

\* C24: a reported score is an integer n between 0 and 100 with
\* n = 100 - 10 * (Failed + Error) when that is not negative and n = 0
\* otherwise; a run with no check enabled reports Total Checks 0 and 100.
C24_ScoreRange ==
    DQReported =>
        LET s == dq_ret.summary
            raw == 100 - PENALTY * (s.Failed_Checks + s.Error_Checks)
        IN /\ \E n \in 0..100 :
                /\ dq_ret.score = IntStr(n) \o <<"/", "1", "0", "0">>
                /\ n = IF raw < 0 THEN 0 ELSE raw
           /\ (~dq_kwargs.dq_check_row_count /\ ~dq_kwargs.dq_check_duplicate_rows)
                => /\ s.Total_Checks = 0
                   /\ dq_ret.score = <<"1", "0", "0", "/", "1", "0", "0">>

\* A reported run with no check enabled: Total Checks 0 and score 100.
C24_Witness ==
    /\ DQReported
    /\ ~dq_kwargs.dq_check_row_count
    /\ ~dq_kwargs.dq_check_duplicate_rows
    /\ dq_ret.summary.Total_Checks = 0
    /\ dq_ret.detailed = <<>>
    /\ dq_ret.score = <<"1", "0", "0", "/", "1", "0", "0">>

C26_DisconnectKeepsResults ==
    [][/\ (is_logged_in /\ ~is_logged_in') => stored' = stored
       /\ ss_event' # "operation" => stored' = stored
       /\ \A k \in SessionKeys :
            stored'[k] # stored[k] =>
                (ss_event' = "operation" /\ k \in StoredBy(last_use'.op))]_vars

\* A second connection has just been made while the drift results and the
\* test results computed on the first, now closed, connection are still kept.
C26_Witness ==
    /\ ss_event = "connected"
    /\ is_logged_in
    /\ session_conn = 2
    /\ handles[1] = "closed"
    /\ stored["table_diff"] = "result A"
    /\ stored["column_diff"] = "result A"
    /\ stored["datatype_diff"] = "result A"
    /\ stored["test_results"] = "result B"
    /\ stored_on["table_diff"] = 1
    /\ stored_on["test_results"] = 1

====
